---- MODULE Spec2Model ----
(***************************************************************************)
(* QCPDataContainer<DataType> (src/src/datacontainer.h): a QVector of data *)
(* points kept sorted by sort key, with a preallocation pool in front of   *)
(* the live data (mPreallocSize slots) and the QVector's own unused        *)
(* capacity behind it.                                                     *)
(***************************************************************************)
EXTENDS Integers, Sequences, FiniteSets, TLC

\* ------------------------------------------------------------------ bounds
\* a run of calls on one container (Spec)
MaxSize == 4        \* most live points an add may leave in the container
MaxIn == 1          \* longest vector handed to set/add, the example's vector apart
MaxBuf == 8         \* longest mData (pool + live) an add may leave
\* a single call on a container in any state (SpecCall)
MaxLive == 3        \* most live points of the container the call is made on
MaxCallIn == 2      \* longest vector handed to set/add
MaxPool == 1        \* largest pool of the container the call is made on
MaxIter == 1        \* most earlier pool growths of that container
\* a single query on a container in any state (SpecQuery)
MaxQLive == 3       \* most live points of the container queried
MaxQPool == 1       \* largest pool of the container queried

\* ------------------------------------------------------- program constants
LargeAlloc == 650000    \* performAutoSqueeze: "if allocation is larger"
SmallAlloc == 1000      \* performAutoSqueeze: "below 1k points don't even bother"

\* ------------------------------------------------------------- data points
Keys == {3, 5, 6, 7}
ProbeKeys == 2..8

Pt(k, v) == [key |-> k, value |-> v]

\* the points of the documented example: value 10*key
ScenarioPoints == {Pt(k, 10 * k) : k \in Keys}

\* the points callers hand in: those, and a second point of key 6 so that
\* points of equal sort key can be told apart
Points == ScenarioPoints \cup {Pt(6, 61)}

\* DataType(): what QVector::resize fills new slots with
DefaultPoint == Pt(0, 0)

\* what a slot of the preallocation pool reads as
DeadSlot == Pt(0, -1)

sortKey(p) == p.key

fromSortKey(k) == Pt(k, 0)

qcpLessThanSortKey(a, b) == sortKey(a) < sortKey(b)

\* ------------------------------------------------- the container's members
VARIABLES
  mData,               \* QVector<DataType>: the pool, then the live points
  mPreallocSize,       \* slots of mData in front of the live points
  mPreallocIteration,  \* preallocateGrow calls since the last reset
  mAutoSqueeze,        \* property: squeeze automatically after a removal
  alloc,               \* mData.capacity()
  balance,             \* history: points added minus points removed since the last set/clear
  scen,                \* history: progress along the documented example scenario
  pc,                  \* "run": a caller making call after call; "call"/"done": one call
  before,              \* history, one call: the container the call was made on
  call                 \* history, one call: the call, the branch it took, what it released

vars == <<mData, mPreallocSize, mPreallocIteration, mAutoSqueeze, alloc,
          balance, scen, pc, before, call>>

\* The container as one value. path, squeezed and nrem report on the last
\* call: the branch taken, what its auto squeeze released, and the iterator
\* distance its erase or pool adjustment was made with.
Store == [mData |-> mData, mPreallocSize |-> mPreallocSize,
          mPreallocIteration |-> mPreallocIteration,
          mAutoSqueeze |-> mAutoSqueeze, alloc |-> alloc,
          path |-> "", squeezed |-> "no", nrem |-> 0]

\* ------------------------------------------------------ iterators, getters
\* An iterator is a position 1..Len+1 of mData.
size(s) == Len(s.mData) - s.mPreallocSize

isEmpty(s) == size(s) = 0

begin(s) == s.mPreallocSize + 1

end(s) == Len(s.mData) + 1

\* the range constBegin()..constEnd()
Live(s) == SubSeq(s.mData, s.mPreallocSize + 1, Len(s.mData))

\* ------------------------------------------------------------ <algorithm>
RECURSIVE lower_bound_loop(_, _, _, _)
lower_bound_loop(d, first, len, val) ==
  IF len <= 0 THEN first
  ELSE LET half == len \div 2
           middle == first + half
       IN IF qcpLessThanSortKey(d[middle], val)
          THEN lower_bound_loop(d, middle + 1, len - half - 1, val)
          ELSE lower_bound_loop(d, first, half, val)

std_lower_bound(d, first, last, val) == lower_bound_loop(d, first, last - first, val)

RECURSIVE upper_bound_loop(_, _, _, _)
upper_bound_loop(d, first, len, val) ==
  IF len <= 0 THEN first
  ELSE LET half == len \div 2
           middle == first + half
       IN IF qcpLessThanSortKey(val, d[middle])
          THEN upper_bound_loop(d, first, half, val)
          ELSE upper_bound_loop(d, middle + 1, len - half - 1, val)

std_upper_bound(d, first, last, val) == upper_bound_loop(d, first, last - first, val)

\* std::copy(src, dst): src is a sequence, written forward from position dst
RECURSIVE std_copy(_, _, _)
std_copy(src, d, dst) ==
  IF src = << >> THEN d
  ELSE std_copy(Tail(src), [d EXCEPT ![dst] = Head(src)], dst + 1)

\* std::copy within the same buffer: [first, last) forward to dst
RECURSIVE std_copy_within(_, _, _, _)
std_copy_within(d, first, last, dst) ==
  IF first >= last THEN d
  ELSE std_copy_within([d EXCEPT ![dst] = d[first]], first + 1, last, dst + 1)

\* std::copy_backward within the same buffer: [first, last) to the range ending at dlast
RECURSIVE std_copy_backward(_, _, _, _)
std_copy_backward(d, first, last, dlast) ==
  IF first >= last THEN d
  ELSE std_copy_backward([d EXCEPT ![dlast - 1] = d[last - 1]], first, last - 1, dlast - 1)

IsSortedSeq(q) == \A i \in 1..(Len(q) - 1) : ~qcpLessThanSortKey(q[i + 1], q[i])

\* std::sort is not stable: any ordering of the range that is sorted by the
\* comparison can come out
std_sort(q) ==
  {t \in {[i \in 1..Len(q) |-> q[f[i]]] : f \in Permutations(1..Len(q))} : IsSortedSeq(t)}

\* std::merge of two sorted runs; an element of the second run goes first only
\* when it is less than the head of the first (stable)
RECURSIVE merge_runs(_, _)
merge_runs(a, b) ==
  IF a = << >> THEN b
  ELSE IF b = << >> THEN a
  ELSE IF qcpLessThanSortKey(Head(b), Head(a))
       THEN <<Head(b)>> \o merge_runs(a, Tail(b))
       ELSE <<Head(a)>> \o merge_runs(Tail(a), b)

std_inplace_merge(d, first, middle, last) ==
  SubSeq(d, 1, first - 1)
    \o merge_runs(SubSeq(d, first, middle - 1), SubSeq(d, middle, last - 1))
    \o SubSeq(d, last, Len(d))

\* ----------------------------------------------------------------- QVector
\* "QVector grow strategy is 2^n": a reallocation that has to grow takes the
\* next power of two
RECURSIVE pow2_from(_, _)
pow2_from(c, n) == IF c >= n THEN c ELSE pow2_from(2 * c, n)

QVector_grow(n) == pow2_from(1, n)

QVector_resize(s, n) ==
  [s EXCEPT !.mData = IF n <= Len(@) THEN SubSeq(@, 1, n)
                      ELSE @ \o [i \in 1..(n - Len(@)) |-> DefaultPoint],
            !.alloc = IF n > @ THEN QVector_grow(n) ELSE @]

QVector_append(s, p) ==
  [s EXCEPT !.mData = Append(@, p),
            !.alloc = IF Len(s.mData) + 1 > @ THEN QVector_grow(Len(s.mData) + 1) ELSE @]

\* insert before position it
QVector_insert(s, it, p) ==
  [s EXCEPT !.mData = SubSeq(@, 1, it - 1) \o <<p>> \o SubSeq(@, it, Len(@)),
            !.alloc = IF Len(s.mData) + 1 > @ THEN QVector_grow(Len(s.mData) + 1) ELSE @]

\* erase [it, itEnd): the capacity stays
QVector_erase(s, it, itEnd) ==
  [s EXCEPT !.mData = SubSeq(@, 1, it - 1) \o SubSeq(@, itEnd, Len(@)),
            !.nrem = itEnd - it]

\* QVector::squeeze() that keeps the capacity
QVector_squeeze_keepCapacity(s) == s

\* QVector::squeeze(): the capacity becomes the vector's size
QVector_squeeze(s) == [s EXCEPT !.alloc = Len(s.mData)]

\* ------------------------------------------------- preallocation, squeezing
qBound(lo, x, hi) == IF x < lo THEN lo ELSE IF x > hi THEN hi ELSE x

\* the schedule without the upper clamp of qBound
newPreallocSize_unclamped(minimumPreallocSize, iteration) ==
  minimumPreallocSize + (2 ^ (iteration + 4) - 12)

\* the schedule clamped one power of two later
newPreallocSize_clampedAt16(minimumPreallocSize, iteration) ==
  minimumPreallocSize + (2 ^ qBound(4, iteration + 4, 16) - 12)

\* "newPreallocSize += (1u<<qBound(4, mPreallocIteration+4, 15)) - 12"
newPreallocSize(minimumPreallocSize, iteration) ==
  minimumPreallocSize + (2 ^ qBound(4, iteration + 4, 15) - 12)

\* preallocateGrow without the std::copy_backward
preallocateGrow_noMove(s, minimumPreallocSize) ==
  IF minimumPreallocSize <= s.mPreallocSize THEN s
  ELSE LET newSize == newPreallocSize(minimumPreallocSize, s.mPreallocIteration)
           sizeDifference == newSize - s.mPreallocSize
           r == QVector_resize(s, Len(s.mData) + sizeDifference)
       IN [r EXCEPT !.mPreallocIteration = @ + 1,
                    !.mPreallocSize = newSize]

\* preallocateGrow without "++mPreallocIteration"
preallocateGrow_keepIteration(s, minimumPreallocSize) ==
  IF minimumPreallocSize <= s.mPreallocSize THEN s
  ELSE LET newSize == newPreallocSize(minimumPreallocSize, s.mPreallocIteration)
           sizeDifference == newSize - s.mPreallocSize
           r == QVector_resize(s, Len(s.mData) + sizeDifference)
       IN [r EXCEPT !.mData = std_copy_backward(@, s.mPreallocSize + 1,
                                                Len(@) + 1 - sizeDifference, Len(@) + 1),
                    !.mPreallocSize = newSize]

preallocateGrow(s, minimumPreallocSize) ==
  IF minimumPreallocSize <= s.mPreallocSize THEN s
  ELSE LET newSize == newPreallocSize(minimumPreallocSize, s.mPreallocIteration)
           sizeDifference == newSize - s.mPreallocSize
           r == QVector_resize(s, Len(s.mData) + sizeDifference)
       IN [r EXCEPT !.mPreallocIteration = @ + 1,
                    !.mData = std_copy_backward(@, s.mPreallocSize + 1,
                                                Len(@) + 1 - sizeDifference, Len(@) + 1),
                    !.mPreallocSize = newSize]

\* squeeze without "mData.resize(size())"
squeeze_noResize(s, preAllocation, postAllocation) ==
  LET a == IF preAllocation /\ s.mPreallocSize > 0
           THEN [s EXCEPT !.mData = std_copy_within(@, begin(s), end(s), 1),
                          !.mPreallocSize = 0]
           ELSE s
      b == IF preAllocation THEN [a EXCEPT !.mPreallocIteration = 0] ELSE a
  IN IF postAllocation THEN QVector_squeeze(b) ELSE b

\* squeeze without "std::copy(begin(), end(), mData.begin())"
squeeze_noCopy(s, preAllocation, postAllocation) ==
  LET a == IF preAllocation /\ s.mPreallocSize > 0
           THEN [QVector_resize(s, size(s)) EXCEPT !.mPreallocSize = 0]
           ELSE s
      b == IF preAllocation THEN [a EXCEPT !.mPreallocIteration = 0] ELSE a
  IN IF postAllocation THEN QVector_squeeze(b) ELSE b

\* squeeze with "mPreallocIteration = 0" inside "if (mPreallocSize > 0)"
squeeze_resetWithPool(s, preAllocation, postAllocation) ==
  LET a == IF preAllocation /\ s.mPreallocSize > 0
           THEN [QVector_resize([s EXCEPT !.mData = std_copy_within(@, begin(s), end(s), 1)],
                                size(s))
                   EXCEPT !.mPreallocSize = 0, !.mPreallocIteration = 0]
           ELSE s
  IN IF postAllocation THEN QVector_squeeze(a) ELSE a

squeeze(s, preAllocation, postAllocation) ==
  LET a == IF preAllocation /\ s.mPreallocSize > 0
           THEN [QVector_resize([s EXCEPT !.mData = std_copy_within(@, begin(s), end(s), 1)],
                                size(s))
                   EXCEPT !.mPreallocSize = 0]
           ELSE s
      b == IF preAllocation THEN [a EXCEPT !.mPreallocIteration = 0] ELSE a
  IN IF postAllocation THEN QVector_squeeze(b) ELSE b

\* the decision with the first band starting at 650000
autoSqueezeDecision_bandFrom650000(totalAlloc, dataSize, preallocSize) ==
  LET postAllocSize == totalAlloc - dataSize
      usedSize == dataSize - preallocSize
  IN [shrinkPostAllocation |->
        IF totalAlloc >= LargeAlloc THEN 2 * postAllocSize > usedSize * 3
        ELSE IF totalAlloc > SmallAlloc THEN postAllocSize > usedSize * 5
        ELSE FALSE,
      shrinkPreAllocation |->
        IF totalAlloc >= LargeAlloc THEN preallocSize * 10 > usedSize
        ELSE IF totalAlloc > SmallAlloc THEN 2 * preallocSize > usedSize * 3
        ELSE FALSE]

\* what performAutoSqueeze decides from mData.capacity(), mData.size() and
\* mPreallocSize; "x > usedSize*1.5" on integers is "2*x > usedSize*3"
autoSqueezeDecision(totalAlloc, dataSize, preallocSize) ==
  LET postAllocSize == totalAlloc - dataSize
      usedSize == dataSize - preallocSize
  IN [shrinkPostAllocation |->
        IF totalAlloc > LargeAlloc THEN 2 * postAllocSize > usedSize * 3
        ELSE IF totalAlloc > SmallAlloc THEN postAllocSize > usedSize * 5
        ELSE FALSE,
      shrinkPreAllocation |->
        IF totalAlloc > LargeAlloc THEN preallocSize * 10 > usedSize
        ELSE IF totalAlloc > SmallAlloc THEN 2 * preallocSize > usedSize * 3
        ELSE FALSE]

performAutoSqueeze(s) ==
  LET d == autoSqueezeDecision(s.alloc, Len(s.mData), s.mPreallocSize)
      shrinkPostAllocation == d.shrinkPostAllocation
      shrinkPreAllocation == d.shrinkPreAllocation
  IN IF shrinkPreAllocation \/ shrinkPostAllocation
     THEN [squeeze(s, shrinkPreAllocation, shrinkPostAllocation)
             EXCEPT !.squeezed = IF shrinkPreAllocation /\ shrinkPostAllocation THEN "both"
                                 ELSE IF shrinkPreAllocation THEN "pre" ELSE "post"]
     ELSE s

\* the tail of every removal: "if (mAutoSqueeze) performAutoSqueeze();"
autoSqueezeAfter(s) == IF s.mAutoSqueeze THEN performAutoSqueeze(s) ELSE s

\* setAutoSqueeze running the check whenever it is called with true
setAutoSqueeze_everyTime(s, enabled) ==
  LET r == [s EXCEPT !.mAutoSqueeze = enabled,
                     !.path = IF s.mAutoSqueeze # enabled THEN "setAutoSqueeze:changed"
                              ELSE "setAutoSqueeze:same"]
  IN IF enabled THEN performAutoSqueeze(r) ELSE r

setAutoSqueeze(s, enabled) ==
  IF s.mAutoSqueeze # enabled
  THEN LET r == [s EXCEPT !.mAutoSqueeze = enabled, !.path = "setAutoSqueeze:changed"]
       IN IF enabled THEN performAutoSqueeze(r) ELSE r
  ELSE [s EXCEPT !.path = "setAutoSqueeze:same"]

\* ------------------------------------------------------------ set, add, sort
\* sort() as std::sort(begin() + 1, end())
sort_fromSecond(s) ==
  IF isEmpty(s) THEN {s}
  ELSE {[s EXCEPT !.mData = SubSeq(s.mData, 1, s.mPreallocSize + 1) \o t] :
          t \in std_sort(SubSeq(s.mData, s.mPreallocSize + 2, Len(s.mData)))}

\* sort(): std::sort(begin(), end()); the results it can leave
sort(s) ==
  {[s EXCEPT !.mData = SubSeq(s.mData, 1, s.mPreallocSize) \o t] : t \in std_sort(Live(s))}

\* set(const QVector&, bool) without "if (!alreadySorted) sort();"
set_vector_unsorted(s, data, alreadySorted, dataCapacity) ==
  {[s EXCEPT !.mData = data, !.alloc = dataCapacity,
             !.mPreallocSize = 0, !.mPreallocIteration = 0, !.path = "set"]}

\* set(const QVector&, bool): mData = data shares the caller's vector, whose
\* capacity is dataCapacity
set_vector(s, data, alreadySorted, dataCapacity) ==
  LET r == [s EXCEPT !.mData = data, !.alloc = dataCapacity,
                     !.mPreallocSize = 0, !.mPreallocIteration = 0,
                     !.path = "set"]
  IN IF ~alreadySorted THEN sort(r) ELSE {r}

\* clear(): QVector::clear keeps the allocation or gives it back, by Qt version
clear(s) ==
  {[s EXCEPT !.mData = << >>, !.alloc = a, !.mPreallocIteration = 0,
             !.mPreallocSize = 0, !.path = "clear"] : a \in {0, s.alloc}}

\* the append branch without the merge of the two partitions
add_merge_skipped(r, n, oldSize) == [r EXCEPT !.path = "add:append"]

\* the append branch shared by both range overloads, after the copy and the
\* optional sort of the appended subrange
add_merge(r, n, oldSize) ==
  IF oldSize > 0 /\ ~qcpLessThanSortKey(r.mData[end(r) - n - 1], r.mData[end(r) - n])
  THEN [r EXCEPT !.mData = std_inplace_merge(@, begin(r), end(r) - n, end(r)),
                 !.path = "add:merge"]
  ELSE [r EXCEPT !.path = "add:append"]

add_prepend(s, data) ==
  LET n == Len(data)
      g == IF s.mPreallocSize < n THEN preallocateGrow(s, n) ELSE s
      r == [g EXCEPT !.mPreallocSize = @ - n]
  IN [r EXCEPT !.mData = std_copy(data, @, begin(r)), !.path = "add:prepend"]

add_append(s, data) ==
  LET n == Len(data)
      r == QVector_resize(s, Len(s.mData) + n)
  IN [r EXCEPT !.mData = std_copy(data, @, end(r) - n)]

\* add(const QVector&, bool)
add_vector(s, data, alreadySorted, dataCapacity) ==
  IF data = << >> THEN {[s EXCEPT !.path = "add:nothing"]}
  ELSE IF isEmpty(s)
       THEN {[r EXCEPT !.path = "add:set"] : r \in set_vector(s, data, alreadySorted, dataCapacity)}
  ELSE LET n == Len(data)
           oldSize == size(s)
       IN IF alreadySorted /\ oldSize > 0
             /\ ~qcpLessThanSortKey(s.mData[begin(s)], data[n])
          THEN {add_prepend(s, data)}
          ELSE LET r == add_append(s, data)
                   tails == IF ~alreadySorted
                            THEN std_sort(SubSeq(r.mData, end(r) - n, Len(r.mData)))
                            ELSE {SubSeq(r.mData, end(r) - n, Len(r.mData))}
               IN {add_merge([r EXCEPT !.mData = SubSeq(@, 1, end(r) - n - 1) \o tl],
                             n, oldSize) : tl \in tails}

\* add(const QCPDataContainer&): data is the other container's live range
add_container(s, data) ==
  IF data = << >> THEN [s EXCEPT !.path = "add:nothing"]
  ELSE LET n == Len(data)
           oldSize == size(s)
       IN IF oldSize > 0 /\ ~qcpLessThanSortKey(s.mData[begin(s)], data[n])
          THEN add_prepend(s, data)
          ELSE add_merge(add_append(s, data), n, oldSize)

\* set(const QCPDataContainer&): clear(); add(data);
set_container(s, data) == {add_container(c, data) : c \in clear(s)}

\* add(const DataType&) with the insert branch appending
add_point_insertAtEnd(s, data) ==
  IF isEmpty(s) \/ ~qcpLessThanSortKey(data, s.mData[end(s) - 1])
  THEN [QVector_append(s, data) EXCEPT !.path = "add1:append"]
  ELSE IF qcpLessThanSortKey(data, s.mData[begin(s)])
  THEN LET g == IF s.mPreallocSize < 1 THEN preallocateGrow(s, 1) ELSE s
           r == [g EXCEPT !.mPreallocSize = @ - 1]
       IN [r EXCEPT !.mData[begin(r)] = data, !.path = "add1:prepend"]
  ELSE [QVector_insert(s, end(s), data) EXCEPT !.path = "add1:insert"]

\* add(const DataType&) without the insert branch: whatever does not append is prepended
add_point_prependAny(s, data) ==
  IF isEmpty(s) \/ ~qcpLessThanSortKey(data, s.mData[end(s) - 1])
  THEN [QVector_append(s, data) EXCEPT !.path = "add1:append"]
  ELSE LET g == IF s.mPreallocSize < 1 THEN preallocateGrow(s, 1) ELSE s
           r == [g EXCEPT !.mPreallocSize = @ - 1]
       IN [r EXCEPT !.mData[begin(r)] = data, !.path = "add1:prepend"]

\* add(const DataType&)
add_point(s, data) ==
  IF isEmpty(s) \/ ~qcpLessThanSortKey(data, s.mData[end(s) - 1])
  THEN [QVector_append(s, data) EXCEPT !.path = "add1:append"]
  ELSE IF qcpLessThanSortKey(data, s.mData[begin(s)])
  THEN LET g == IF s.mPreallocSize < 1 THEN preallocateGrow(s, 1) ELSE s
           r == [g EXCEPT !.mPreallocSize = @ - 1]
       IN [r EXCEPT !.mData[begin(r)] = data, !.path = "add1:prepend"]
  ELSE LET insertionPoint == std_lower_bound(s.mData, begin(s), end(s), data)
       IN [QVector_insert(s, insertionPoint, data) EXCEPT !.path = "add1:insert"]

\* ------------------------------------------------------------------ removal
\* removeBefore moving one slot more than [begin(), itEnd) into the pool
removeBefore_oneMore(s, k) ==
  LET it == begin(s)
      itEnd == std_lower_bound(s.mData, begin(s), end(s), fromSortKey(k))
  IN autoSqueezeAfter([s EXCEPT !.mPreallocSize = @ + (itEnd - it) + 1,
                                !.nrem = itEnd - it, !.path = "removeBefore"])

\* removeBefore erasing the points from the buffer
removeBefore_erasing(s, k) ==
  LET it == begin(s)
      itEnd == std_lower_bound(s.mData, begin(s), end(s), fromSortKey(k))
  IN autoSqueezeAfter([QVector_erase(s, it, itEnd) EXCEPT !.path = "removeBefore"])

removeBefore(s, k) ==
  LET it == begin(s)
      itEnd == std_lower_bound(s.mData, begin(s), end(s), fromSortKey(k))
  IN autoSqueezeAfter([s EXCEPT !.mPreallocSize = @ + (itEnd - it),
                                !.nrem = itEnd - it, !.path = "removeBefore"])

removeAfter(s, k) ==
  LET it == std_upper_bound(s.mData, begin(s), end(s), fromSortKey(k))
      itEnd == end(s)
  IN autoSqueezeAfter([QVector_erase(s, it, itEnd) EXCEPT !.path = "removeAfter"])

\* remove(double, double) with the end of the erased range found by lower_bound
remove_range_exclusiveTo(s, sortKeyFrom, sortKeyTo) ==
  IF sortKeyFrom >= sortKeyTo \/ isEmpty(s) THEN [s EXCEPT !.path = "remove2:nothing"]
  ELSE LET it == std_lower_bound(s.mData, begin(s), end(s), fromSortKey(sortKeyFrom))
           itEnd == std_lower_bound(s.mData, it, end(s), fromSortKey(sortKeyTo))
       IN autoSqueezeAfter([QVector_erase(s, it, itEnd) EXCEPT !.path = "remove2:erase"])

\* remove(double, double) with "sortKeyFrom > sortKeyTo" as the guard
remove_range_equalPasses(s, sortKeyFrom, sortKeyTo) ==
  IF sortKeyFrom > sortKeyTo \/ isEmpty(s) THEN [s EXCEPT !.path = "remove2:nothing"]
  ELSE LET it == std_lower_bound(s.mData, begin(s), end(s), fromSortKey(sortKeyFrom))
           itEnd == std_upper_bound(s.mData, it, end(s), fromSortKey(sortKeyTo))
       IN autoSqueezeAfter([QVector_erase(s, it, itEnd) EXCEPT !.path = "remove2:erase"])

\* remove(double, double)
remove_range(s, sortKeyFrom, sortKeyTo) ==
  IF sortKeyFrom >= sortKeyTo \/ isEmpty(s) THEN [s EXCEPT !.path = "remove2:nothing"]
  ELSE LET it == std_lower_bound(s.mData, begin(s), end(s), fromSortKey(sortKeyFrom))
           itEnd == std_upper_bound(s.mData, it, end(s), fromSortKey(sortKeyTo))
       IN autoSqueezeAfter([QVector_erase(s, it, itEnd) EXCEPT !.path = "remove2:erase"])

\* remove(double) erasing every point of the key
remove_key_allOfKey(s, k) ==
  LET it == std_lower_bound(s.mData, begin(s), end(s), fromSortKey(k))
      itEnd == std_upper_bound(s.mData, it, end(s), fromSortKey(k))
  IN autoSqueezeAfter([QVector_erase(s, it, itEnd) EXCEPT !.path = "remove1:erase"])

\* remove(double)
remove_key(s, k) ==
  LET it == std_lower_bound(s.mData, begin(s), end(s), fromSortKey(k))
      r == IF it # end(s) /\ sortKey(s.mData[it]) = k
           THEN IF it = begin(s)
                THEN [s EXCEPT !.mPreallocSize = @ + 1, !.nrem = 1, !.path = "remove1:front"]
                ELSE [QVector_erase(s, it, it + 1) EXCEPT !.path = "remove1:erase"]
           ELSE [s EXCEPT !.path = "remove1:nothing"]
  IN autoSqueezeAfter(r)

\* ------------------------------------------------------------------ queries
\* The DataType interface the range queries use. Pt is a point of one key and
\* one value: its main key is its sort key and its value range is its value.
\* QPt is a point that states all five on its own (a curve point whose sort
\* key is a parameter t, a point spanning several values).
NaN == -99

qIsNaN(x) == x = NaN

\* operator< and operator> of double: false as soon as one side is NaN
fLess(a, b) == ~qIsNaN(a) /\ ~qIsNaN(b) /\ a < b

fGreater(a, b) == fLess(b, a)

QPt(k, mk, v, lo, up) == [key |-> k, mainKey |-> mk, value |-> v, lower |-> lo, upper |-> up]

mainKey(p) == IF "mainKey" \in DOMAIN p THEN p.mainKey ELSE p.key

mainValue(p) == p.value

QCPRange(lo, up) == [lower |-> lo, upper |-> up]

\* QCPRange(): both bounds zero
QCPRange0 == QCPRange(0, 0)

valueRangeOf(p) == IF "lower" \in DOMAIN p THEN QCPRange(p.lower, p.upper)
                   ELSE QCPRange(p.value, p.value)

\* at(index) bounding the index from above only
at_upperBoundOnly(s, index) == begin(s) + (IF index > size(s) THEN size(s) ELSE index)

\* the iterator at(index) returns
at(s, index) == begin(s) + qBound(0, index, size(s))

\* findBegin without "&& it != constBegin()"
findBegin_alwaysBack(s, k, expandedRange) ==
  IF isEmpty(s) THEN end(s)
  ELSE LET it == std_lower_bound(s.mData, begin(s), end(s), fromSortKey(k))
       IN IF expandedRange THEN it - 1 ELSE it

\* findBegin stepping back without "it != constBegin()"
findBegin_noBeginGuard(s, k, expandedRange) ==
  IF isEmpty(s) THEN end(s)
  ELSE LET it == std_lower_bound(s.mData, begin(s), end(s), fromSortKey(k))
       IN IF expandedRange THEN it - 1 ELSE it

findBegin(s, k, expandedRange) ==
  IF isEmpty(s) THEN end(s)
  ELSE LET it == std_lower_bound(s.mData, begin(s), end(s), fromSortKey(k))
       IN IF expandedRange /\ it # begin(s) THEN it - 1 ELSE it

\* findEnd searching with std::lower_bound
findEnd_lowerBound(s, k, expandedRange) ==
  IF isEmpty(s) THEN end(s)
  ELSE LET it == std_lower_bound(s.mData, begin(s), end(s), fromSortKey(k))
       IN IF expandedRange /\ it # end(s) THEN it + 1 ELSE it

findEnd(s, k, expandedRange) ==
  IF isEmpty(s) THEN end(s)
  ELSE LET it == std_upper_bound(s.mData, begin(s), end(s), fromSortKey(k))
       IN IF expandedRange /\ it # end(s) THEN it + 1 ELSE it

\* QCP::SignDomain
SignDomains == {"sdBoth", "sdNegative", "sdPositive"}

\* the sign tests as "<= 0" and ">= 0"
InSignDomain_zeroIncluded(x, signDomain) ==
  CASE signDomain = "sdBoth" -> TRUE
    [] signDomain = "sdNegative" -> ~fGreater(x, 0) /\ ~qIsNaN(x)
    [] signDomain = "sdPositive" -> ~fLess(x, 0) /\ ~qIsNaN(x)

\* "&& current < 0", "&& current > 0", or nothing for sdBoth
InSignDomain(x, signDomain) ==
  CASE signDomain = "sdBoth" -> TRUE
    [] signDomain = "sdNegative" -> fLess(x, 0)
    [] signDomain = "sdPositive" -> fGreater(x, 0)

\* range, haveLower, haveUpper as the loops of keyRange and valueRange start
RangeStart == [lower |-> QCPRange0.lower, upper |-> QCPRange0.upper,
               haveLower |-> FALSE, haveUpper |-> FALSE]

\* what keyRange and valueRange hand back: foundRange and the range
RangeResult(acc) == [found |-> acc.haveLower /\ acc.haveUpper,
                     lower |-> acc.lower, upper |-> acc.upper]

\* keyRange, sdBoth, sorted by main key: first point of non-NaN value from the left
RECURSIVE keyRange_firstUp(_, _, _, _)
keyRange_firstUp(d, it, itEnd, acc) ==
  IF it = itEnd THEN acc
  ELSE IF ~qIsNaN(mainValue(d[it]))
       THEN [acc EXCEPT !.lower = mainKey(d[it]), !.haveLower = TRUE]
       ELSE keyRange_firstUp(d, it + 1, itEnd, acc)

\* the scan from the right taking the last point whatever its value
keyRange_firstDown_lastPoint(d, it, itBegin, acc) ==
  IF it = itBegin THEN acc
  ELSE [acc EXCEPT !.upper = mainKey(d[it - 1]), !.haveUpper = TRUE]

\* ... and first point of non-NaN value going down from the right
RECURSIVE keyRange_firstDown(_, _, _, _)
keyRange_firstDown(d, it, itBegin, acc) ==
  IF it = itBegin THEN acc
  ELSE IF ~qIsNaN(mainValue(d[it - 1]))
       THEN [acc EXCEPT !.upper = mainKey(d[it - 1]), !.haveUpper = TRUE]
       ELSE keyRange_firstDown(d, it - 1, itBegin, acc)

\* the loop body of keyRange without "if (!qIsNaN(it->mainValue()))"
keyRange_visit_anyValue(acc, p, signDomain) ==
  LET current == mainKey(p)
      a == IF (fLess(current, acc.lower) \/ ~acc.haveLower)
              /\ InSignDomain(current, signDomain)
           THEN [acc EXCEPT !.lower = current, !.haveLower = TRUE] ELSE acc
  IN IF (fGreater(current, a.upper) \/ ~a.haveUpper)
        /\ InSignDomain(current, signDomain)
     THEN [a EXCEPT !.upper = current, !.haveUpper = TRUE] ELSE a

\* the body of the three other loops of keyRange
keyRange_visit(acc, p, signDomain) ==
  IF qIsNaN(mainValue(p)) THEN acc
  ELSE LET current == mainKey(p)
           a == IF (fLess(current, acc.lower) \/ ~acc.haveLower)
                   /\ InSignDomain(current, signDomain)
                THEN [acc EXCEPT !.lower = current, !.haveLower = TRUE] ELSE acc
       IN IF (fGreater(current, a.upper) \/ ~a.haveUpper)
             /\ InSignDomain(current, signDomain)
          THEN [a EXCEPT !.upper = current, !.haveUpper = TRUE] ELSE a

RECURSIVE keyRange_loop(_, _, _, _, _)
keyRange_loop(d, it, itEnd, acc, signDomain) ==
  IF it = itEnd THEN acc
  ELSE keyRange_loop(d, it + 1, itEnd, keyRange_visit(acc, d[it], signDomain), signDomain)

\* keyRange(foundRange, signDomain) of a DataType whose sortKeyIsMainKey() is
\* sortKeyIsMainKey
keyRange(s, signDomain, sortKeyIsMainKey) ==
  IF isEmpty(s) THEN [found |-> FALSE, lower |-> QCPRange0.lower, upper |-> QCPRange0.upper]
  ELSE IF signDomain = "sdBoth" /\ sortKeyIsMainKey
       THEN RangeResult(keyRange_firstDown(s.mData, end(s), begin(s),
                          keyRange_firstUp(s.mData, begin(s), end(s), RangeStart)))
       ELSE RangeResult(keyRange_loop(s.mData, begin(s), end(s), RangeStart, signDomain))

\* the loop body of valueRange without the test against inKeyRange
valueRange_visit_anyKey(acc, p, signDomain, restrictKeyRange, inKeyRange) ==
  LET current == valueRangeOf(p)
      a == IF (fLess(current.lower, acc.lower) \/ ~acc.haveLower)
              /\ InSignDomain(current.lower, signDomain) /\ ~qIsNaN(current.lower)
           THEN [acc EXCEPT !.lower = current.lower, !.haveLower = TRUE] ELSE acc
  IN IF (fGreater(current.upper, a.upper) \/ ~a.haveUpper)
        /\ InSignDomain(current.upper, signDomain) /\ ~qIsNaN(current.upper)
     THEN [a EXCEPT !.upper = current.upper, !.haveUpper = TRUE] ELSE a

\* the loop body of valueRange without the two "&& !qIsNaN(...)"
valueRange_visit_NaNPasses(acc, p, signDomain, restrictKeyRange, inKeyRange) ==
  IF restrictKeyRange /\ (fLess(mainKey(p), inKeyRange.lower)
                            \/ fGreater(mainKey(p), inKeyRange.upper))
  THEN acc
  ELSE LET current == valueRangeOf(p)
           a == IF (fLess(current.lower, acc.lower) \/ ~acc.haveLower)
                   /\ InSignDomain(current.lower, signDomain)
                THEN [acc EXCEPT !.lower = current.lower, !.haveLower = TRUE] ELSE acc
       IN IF (fGreater(current.upper, a.upper) \/ ~a.haveUpper)
             /\ InSignDomain(current.upper, signDomain)
          THEN [a EXCEPT !.upper = current.upper, !.haveUpper = TRUE] ELSE a

\* the body of the loops of valueRange
valueRange_visit(acc, p, signDomain, restrictKeyRange, inKeyRange) ==
  IF restrictKeyRange /\ (fLess(mainKey(p), inKeyRange.lower)
                            \/ fGreater(mainKey(p), inKeyRange.upper))
  THEN acc
  ELSE LET current == valueRangeOf(p)
           a == IF (fLess(current.lower, acc.lower) \/ ~acc.haveLower)
                   /\ InSignDomain(current.lower, signDomain) /\ ~qIsNaN(current.lower)
                THEN [acc EXCEPT !.lower = current.lower, !.haveLower = TRUE] ELSE acc
       IN IF (fGreater(current.upper, a.upper) \/ ~a.haveUpper)
             /\ InSignDomain(current.upper, signDomain) /\ ~qIsNaN(current.upper)
          THEN [a EXCEPT !.upper = current.upper, !.haveUpper = TRUE] ELSE a

RECURSIVE valueRange_loop(_, _, _, _, _, _, _)
valueRange_loop(d, it, itEnd, acc, signDomain, restrictKeyRange, inKeyRange) ==
  IF it = itEnd THEN acc
  ELSE valueRange_loop(d, it + 1, itEnd,
                       valueRange_visit(acc, d[it], signDomain, restrictKeyRange, inKeyRange),
                       signDomain, restrictKeyRange, inKeyRange)

\* valueRange restricting the keys for every inKeyRange, QCPRange() included
valueRange_alwaysRestricted(s, signDomain, inKeyRange, sortKeyIsMainKey) ==
  IF isEmpty(s) THEN [found |-> FALSE, lower |-> QCPRange0.lower, upper |-> QCPRange0.upper]
  ELSE LET itBegin == IF sortKeyIsMainKey THEN findBegin(s, inKeyRange.lower, FALSE) ELSE begin(s)
           itEnd == IF sortKeyIsMainKey THEN findEnd(s, inKeyRange.upper, FALSE) ELSE end(s)
       IN RangeResult(valueRange_loop(s.mData, itBegin, itEnd, RangeStart,
                                      signDomain, TRUE, inKeyRange))

\* valueRange(foundRange, signDomain, inKeyRange)
valueRange(s, signDomain, inKeyRange, sortKeyIsMainKey) ==
  IF isEmpty(s) THEN [found |-> FALSE, lower |-> QCPRange0.lower, upper |-> QCPRange0.upper]
  ELSE LET restrictKeyRange == inKeyRange # QCPRange0
           narrow == sortKeyIsMainKey /\ restrictKeyRange
           itBegin == IF narrow THEN findBegin(s, inKeyRange.lower, FALSE) ELSE begin(s)
           itEnd == IF narrow THEN findEnd(s, inKeyRange.upper, FALSE) ELSE end(s)
       IN RangeResult(valueRange_loop(s.mData, itBegin, itEnd, RangeStart,
                                      signDomain, restrictKeyRange, inKeyRange))

\* ------------------------------------------ QCPAbstractPlottable1D (facade)
\* The plottable reads its container by index: index 0 is *constBegin().
dataCount(s) == size(s)

dataMainKey(s, index) ==
  IF index >= 0 /\ index < size(s) THEN mainKey(s.mData[begin(s) + index]) ELSE 0

dataSortKey(s, index) ==
  IF index >= 0 /\ index < size(s) THEN sortKey(s.mData[begin(s) + index]) ELSE 0

\* dataMainValue() reading from the start of the buffer
dataMainValue_fromBufferStart(s, index) ==
  IF index >= 0 /\ index < size(s) THEN mainValue(s.mData[1 + index]) ELSE 0

dataMainValue(s, index) ==
  IF index >= 0 /\ index < size(s) THEN mainValue(s.mData[begin(s) + index]) ELSE 0

dataValueRange(s, index) ==
  IF index >= 0 /\ index < size(s) THEN valueRangeOf(s.mData[begin(s) + index])
  ELSE QCPRange(0, 0)

\* the facade's findBegin() with the offset taken from the start of the buffer
plottable_findBegin_fromBufferStart(s, k, expandedRange) == findBegin(s, k, expandedRange) - 1

\* QCPAbstractPlottable1D::findBegin / findEnd: the iterator as an index
plottable_findBegin(s, k, expandedRange) == findBegin(s, k, expandedRange) - begin(s)

plottable_findEnd(s, k, expandedRange) == findEnd(s, k, expandedRange) - begin(s)

\* "for (it=begin; it!=end; ++it)" of selectTest and selectTestRect: the
\* positions visited, and whether the iterator left constBegin()..constEnd()
\* before it met end
RECURSIVE scan_loop(_, _, _, _)
scan_loop(s, it, itEnd, visited) ==
  IF it = itEnd THEN [visited |-> visited, escaped |-> FALSE]
  ELSE IF it < begin(s) \/ it >= end(s) THEN [visited |-> visited, escaped |-> TRUE]
  ELSE scan_loop(s, it + 1, itEnd, Append(visited, it))

\* the interval of selectTest (expandedRange true) and of selectTestRect
\* (false) for point types with sortKeyIsMainKey(), and the loop over it
scanRange(s, keyMin, keyMax, expandedRange) ==
  IF isEmpty(s) THEN [begin |-> end(s), end |-> end(s), visited |-> << >>, escaped |-> FALSE]
  ELSE LET itBegin == findBegin(s, keyMin, expandedRange)
           itEnd == findEnd(s, keyMax, expandedRange)
           l == IF itBegin = itEnd THEN [visited |-> << >>, escaped |-> FALSE]
                ELSE scan_loop(s, itBegin, itEnd, << >>)
       IN [begin |-> itBegin, end |-> itEnd, visited |-> l.visited, escaped |-> l.escaped]

\* ------------------------------------------------------------------ callers
\* the vectors and containers callers hand in: every vector of up to MaxIn
\* points, and the vector of the documented example
ScenarioRange == <<Pt(5, 50), Pt(6, 60), Pt(7, 70)>>

RunInputs == UNION {[1..n -> ScenarioPoints] : n \in 0..MaxIn} \cup {ScenarioRange}

CallInputs == UNION {[1..n -> Points] : n \in 0..MaxCallIn}

Inputs == IF pc = "run" THEN RunInputs ELSE CallInputs

SortedRunInputs == {data \in RunInputs : IsSortedSeq(data)}

SortedCallInputs == {data \in CallInputs : IsSortedSeq(data)}

\* the live ranges of the containers callers hand in
SortedInputs == IF pc = "run" THEN SortedRunInputs ELSE SortedCallInputs

PointInputs == IF pc = "run" THEN ScenarioPoints ELSE Points

\* the containers callers hand in: a sorted live range behind a pool
OtherContainersOf(lives) ==
  {[mData |-> [i \in 1..p |-> DeadSlot] \o live, mPreallocSize |-> p] :
     live \in lives, p \in 0..MaxPool}

RunContainers == OtherContainersOf(SortedRunInputs)

CallContainers == OtherContainersOf(SortedCallInputs)

OtherContainers == IF pc = "run" THEN RunContainers ELSE CallContainers

\* capacity() of a caller's vector: exactly its size, or reserved beyond one
\* of the allocation sizes performAutoSqueeze distinguishes
Capacities(data) == {Len(data), SmallAlloc + 1, LargeAlloc + 1}

Call(op, data, flags, keys) == [op |-> op, data |-> data, flags |-> flags, keys |-> keys]

NoCall == [op |-> "", data |-> << >>, flags |-> << >>, keys |-> << >>,
           path |-> "", squeezed |-> "no", nrem |-> 0]

\* the documented example: add 5,6,7 sorted; add (3,30); removeBefore(5); removeAfter(6)
ScenNext(c) ==
  IF scen = 0 /\ c.op = "add_vector" /\ c.data = ScenarioRange /\ c.flags = <<TRUE>> THEN 1
  ELSE IF scen = 1 /\ c.op = "add_point" /\ c.data = <<Pt(3, 30)>> THEN 2
  ELSE IF scen = 2 /\ c.op = "removeBefore" /\ c.keys = <<5>> THEN 3
  ELSE IF scen = 3 /\ c.op = "removeAfter" /\ c.keys = <<6>> THEN 4
  ELSE -1

\* No member reads a slot of the pool before begin(): what an operation leaves
\* there is dead. The state keeps the pool's length and blanks its content, so
\* that containers differing only in dead slots are one state and a read of a
\* dead slot shows as DeadSlot.
Blanked(r) == [i \in 1..Len(r.mData) |-> IF i <= r.mPreallocSize THEN DeadSlot ELSE r.mData[i]]

\* a run of calls stays within MaxSize live points and MaxBuf slots
Fits(r) == pc = "run" => size(r) <= MaxSize /\ Len(r.mData) <= MaxBuf

\* a caller is about to make a call
Calling == pc \in {"run", "call"}

\* the call c returned leaving r; bal is the new balance
Commit(r, c, bal) ==
  /\ Fits(r)
  /\ mData' = Blanked(r)
  /\ mPreallocSize' = r.mPreallocSize
  /\ mPreallocIteration' = r.mPreallocIteration
  /\ mAutoSqueeze' = r.mAutoSqueeze
  /\ alloc' = r.alloc
  /\ balance' = bal
  /\ scen' = ScenNext(c)
  /\ IF pc = "run"
     THEN UNCHANGED <<pc, before, call>>
     ELSE /\ pc' = "done"
          /\ before' = Store
          /\ call' = [op |-> c.op, data |-> c.data, flags |-> c.flags, keys |-> c.keys,
                      path |-> r.path, squeezed |-> r.squeezed, nrem |-> r.nrem]

SetVector(data, alreadySorted, c) ==
  /\ Calling
  /\ alreadySorted => IsSortedSeq(data)
  /\ \E r \in set_vector(Store, data, alreadySorted, c) :
       Commit(r, Call("set_vector", data, <<alreadySorted>>, << >>), Len(data))

\* set(const QCPDataContainer&): what is read of the other container is its
\* range constBegin()..constEnd() and its size()
SetContainer(other) ==
  /\ Calling
  /\ \E r \in set_container(Store, Live(other)) :
       Commit(r, Call("set_container", Live(other), << >>, << >>), size(other))

AddVector(data, alreadySorted, c) ==
  /\ Calling
  /\ alreadySorted => IsSortedSeq(data)
  /\ \E r \in add_vector(Store, data, alreadySorted, c) :
       Commit(r, Call("add_vector", data, <<alreadySorted>>, << >>), balance + Len(data))

AddContainer(other) ==
  /\ Calling
  /\ Commit(add_container(Store, Live(other)), Call("add_container", Live(other), << >>, << >>),
            balance + size(other))

AddPoint(data) ==
  /\ Calling
  /\ Commit(add_point(Store, data), Call("add_point", <<data>>, << >>, << >>), balance + 1)

RemoveBefore(k) ==
  /\ Calling
  /\ LET r == removeBefore(Store, k)
     IN Commit(r, Call("removeBefore", << >>, << >>, <<k>>), balance - r.nrem)

RemoveAfter(k) ==
  /\ Calling
  /\ LET r == removeAfter(Store, k)
     IN Commit(r, Call("removeAfter", << >>, << >>, <<k>>), balance - r.nrem)

RemoveRange(from, to) ==
  /\ Calling
  /\ LET r == remove_range(Store, from, to)
     IN Commit(r, Call("remove_range", << >>, << >>, <<from, to>>), balance - r.nrem)

RemoveKey(k) ==
  /\ Calling
  /\ LET r == remove_key(Store, k)
     IN Commit(r, Call("remove_key", << >>, << >>, <<k>>), balance - r.nrem)

Clear ==
  /\ Calling
  /\ \E r \in clear(Store) : Commit(r, Call("clear", << >>, << >>, << >>), 0)

Sort ==
  /\ Calling
  /\ \E r \in sort(Store) :
       Commit([r EXCEPT !.path = "sort"], Call("sort", << >>, << >>, << >>), balance)

Squeeze(preAllocation, postAllocation) ==
  /\ Calling
  /\ Commit([squeeze(Store, preAllocation, postAllocation) EXCEPT !.path = "squeeze"],
            Call("squeeze", << >>, <<preAllocation, postAllocation>>, << >>), balance)

SetAutoSqueeze(enabled) ==
  /\ Calling
  /\ Commit(setAutoSqueeze(Store, enabled),
            Call("setAutoSqueeze", << >>, <<enabled>>, << >>), balance)

\* every call a caller can make
Next ==
  \/ Calling /\ \E data \in Inputs, b \in BOOLEAN :
                  \E c \in Capacities(data) : SetVector(data, b, c)
  \/ Calling /\ \E other \in OtherContainers : SetContainer(other)
  \/ Calling /\ \E data \in Inputs, b \in BOOLEAN :
                  \E c \in (IF isEmpty(Store) THEN Capacities(data) ELSE {Len(data)}) :
                    AddVector(data, b, c)
  \/ Calling /\ \E other \in OtherContainers : AddContainer(other)
  \/ Calling /\ \E data \in PointInputs : AddPoint(data)
  \/ Calling /\ \E k \in ProbeKeys : RemoveBefore(k)
  \/ Calling /\ \E k \in ProbeKeys : RemoveAfter(k)
  \/ Calling /\ \E from \in ProbeKeys, to \in ProbeKeys : RemoveRange(from, to)
  \/ Calling /\ \E k \in ProbeKeys : RemoveKey(k)
  \/ Clear
  \/ Sort
  \/ Calling /\ \E preAllocation \in BOOLEAN, postAllocation \in BOOLEAN :
                  Squeeze(preAllocation, postAllocation)
  \/ Calling /\ \E enabled \in BOOLEAN : SetAutoSqueeze(enabled)

\* QCPDataContainer(): the container as constructed
EmptyStore == [mData |-> << >>, mPreallocSize |-> 0, mPreallocIteration |-> 0,
               mAutoSqueeze |-> TRUE, alloc |-> 0,
               path |-> "", squeezed |-> "no", nrem |-> 0]

\* A caller making any run of calls on a freshly constructed container.
Init ==
  /\ mData = EmptyStore.mData
  /\ mPreallocSize = EmptyStore.mPreallocSize
  /\ mPreallocIteration = EmptyStore.mPreallocIteration
  /\ mAutoSqueeze = EmptyStore.mAutoSqueeze
  /\ alloc = EmptyStore.alloc
  /\ balance = 0
  /\ scen = 0
  /\ pc = "run"
  /\ before = EmptyStore
  /\ call = NoCall

Spec == Init /\ [][Next]_vars

\* One call on a container in any sorted state: a pool of up to MaxPool dead
\* slots, up to MaxLive sorted live points, up to MaxIter earlier growths,
\* auto squeeze on or off, and a capacity that is exact, grown, or reserved
\* by the caller.
SortedLive == UNION {{q \in [1..n -> Points] : IsSortedSeq(q)} : n \in 0..MaxLive}

AllocsFor(n) == {n, QVector_grow(n), SmallAlloc + 1, LargeAlloc + 1}

InitCall ==
  /\ \E live \in SortedLive, p \in 0..MaxPool :
       /\ mData = [i \in 1..p |-> DeadSlot] \o live
       /\ mPreallocSize = p
       /\ balance = Len(live)
  /\ mPreallocIteration \in 0..MaxIter
  /\ mAutoSqueeze \in BOOLEAN
  /\ alloc \in AllocsFor(Len(mData))
  /\ scen = -1
  /\ pc = "call"
  /\ before = EmptyStore
  /\ call = NoCall

SpecCall == InitCall /\ [][Next]_vars

\* the largest minimumPreallocSize asked for
MaxMinimum == 4

\* ------------------------------------------------- one preallocateGrow
\* The protected preallocateGrow, called on a container in any sorted state.
PreallocateGrow(minimumPreallocSize) ==
  /\ Calling
  /\ Commit([preallocateGrow(Store, minimumPreallocSize) EXCEPT !.path = "preallocateGrow"],
            Call("preallocateGrow", << >>, << >>, <<minimumPreallocSize>>), balance)

NextGrow ==
  \/ Calling /\ \E minimumPreallocSize \in 0..MaxMinimum : PreallocateGrow(minimumPreallocSize)

SpecGrow == InitCall /\ [][NextGrow]_vars

\* ------------------------------------------- add and remove, over and over
\* A caller that forever adds a point below every key of the container and
\* then removes it by its key, with auto squeeze left enabled.
CyclePoint == Pt(2, 20)

CycleCommit(r, c, bal, next) ==
  /\ mData' = Blanked(r)
  /\ mPreallocSize' = r.mPreallocSize
  /\ mPreallocIteration' = r.mPreallocIteration
  /\ mAutoSqueeze' = r.mAutoSqueeze
  /\ alloc' = r.alloc
  /\ balance' = bal
  /\ pc' = next
  /\ before' = Store
  /\ call' = [op |-> c.op, data |-> c.data, flags |-> c.flags, keys |-> c.keys,
              path |-> r.path, squeezed |-> r.squeezed, nrem |-> r.nrem]
  /\ UNCHANGED scen

CycleAdd ==
  /\ pc = "cycle:add"
  /\ CycleCommit(add_point(Store, CyclePoint),
                 Call("add_point", <<CyclePoint>>, << >>, << >>), balance + 1, "cycle:remove")

CycleRemove ==
  /\ pc = "cycle:remove"
  /\ LET r == remove_key(Store, sortKey(CyclePoint))
     IN CycleCommit(r, Call("remove_key", << >>, << >>, <<sortKey(CyclePoint)>>),
                    balance - r.nrem, "cycle:add")

NextCycle ==
  \/ CycleAdd
  \/ CycleRemove

InitCycle ==
  /\ \E live \in SortedLive, p \in 0..MaxPool :
       /\ mData = [i \in 1..p |-> DeadSlot] \o live
       /\ mPreallocSize = p
       /\ balance = Len(live)
  /\ mPreallocIteration \in 0..MaxIter
  /\ mAutoSqueeze = TRUE
  /\ alloc \in AllocsFor(Len(mData))
  /\ scen = -1
  /\ pc = "cycle:add"
  /\ before = EmptyStore
  /\ call = NoCall

\* whose turn is next: add() and remove() always return, so the caller goes on
\* from the one to the other
CycleTurn == pc' = IF pc = "cycle:add" THEN "cycle:remove" ELSE "cycle:add"

\* the caller never stops
SpecCycle == InitCycle /\ [][NextCycle]_vars /\ WF_pc(CycleTurn)

\* ------------------------------------------- one removal, many points
\* One removal from a container of some hundred points, of a capacity next to
\* the lower threshold of performAutoSqueeze: a long run of points of key 3, a
\* short run of points of key 5, behind a pool.
BulkLow == {0, 900}

BulkHigh == {19, 20, 21}

BulkCapacities(n) == {c \in {n, QVector_grow(n), SmallAlloc + 1} : c >= n}

InitBulk ==
  /\ \E low \in BulkLow, high \in BulkHigh, p \in 0..MaxPool :
       /\ mData = [i \in 1..p |-> DeadSlot] \o [i \in 1..low |-> Pt(3, 30)]
                     \o [i \in 1..high |-> Pt(5, 50)]
       /\ mPreallocSize = p
       /\ balance = low + high
  /\ mPreallocIteration \in 0..MaxIter
  /\ mAutoSqueeze \in BOOLEAN
  /\ alloc \in BulkCapacities(Len(mData))
  /\ scen = -1
  /\ pc = "call"
  /\ before = EmptyStore
  /\ call = NoCall

NextBulk ==
  \/ Calling /\ \E k \in ProbeKeys : RemoveBefore(k)
  \/ Calling /\ \E k \in ProbeKeys : RemoveAfter(k)
  \/ Calling /\ \E from \in ProbeKeys, to \in ProbeKeys : RemoveRange(from, to)
  \/ Calling /\ \E k \in ProbeKeys : RemoveKey(k)

SpecBulk == InitBulk /\ [][NextBulk]_vars

\* ------------------------------------------- sort keys edited, then sort()
\* A caller writes sort keys through the non-const iterators begin()..end(),
\* which can leave the live range unsorted, and then calls sort().
EditKey(it, k) ==
  /\ pc = "call"
  /\ it \in begin(Store)..(end(Store) - 1)
  /\ mData' = [mData EXCEPT ![it].key = k]
  /\ UNCHANGED <<mPreallocSize, mPreallocIteration, mAutoSqueeze, alloc, balance, scen,
                 pc, before, call>>

NextSort ==
  \/ Calling /\ \E it \in 1..(MaxPool + MaxLive), k \in Keys : EditKey(it, k)
  \/ Sort

InitSort ==
  /\ InitCall
  /\ mAutoSqueeze
  /\ alloc = Len(mData)

SpecSort == InitSort /\ [][NextSort]_vars

\* ------------------------------------------------------------ one query
\* The points of the containers queried. Points of one key and one value
\* (negative, zero and positive keys; NaN, negative, zero and positive values),
\* curve points sorted by a parameter other than their main key, and points
\* spanning a value range of which either bound can be NaN.
QKeys == {-2, -1, 0, 1, 2}

GraphPoints == {QPt(k, k, v, v, v) : k \in QKeys, v \in {NaN, 4}}
                 \cup {QPt(1, 1, v, v, v) : v \in {-3, 0}}

CurvePoints == {QPt(k, mk, v, v, v) : k \in {1, 2}, mk \in {-1, 0, 3}, v \in {NaN, 4}}

SpanPoints == {QPt(1, 1, 4, NaN, 5), QPt(1, 1, 4, -3, NaN), QPt(1, 1, 4, NaN, NaN),
               QPt(1, 1, 4, -3, 5), QPt(1, 1, 4, 2, 3), QPt(1, 1, 4, 6, NaN)}

QPoints == GraphPoints \cup CurvePoints \cup SpanPoints

QSortedLive == UNION {{q \in [1..n -> QPoints] : IsSortedSeq(q)} : n \in 0..MaxQLive}

QProbeKeys == -3..3

QIndices == -2..(MaxQLive + 2)

\* inKeyRange arguments: QCPRange() for "no restriction", and proper ranges
InKeyRanges == {QCPRange0, QCPRange(-1, 1), QCPRange(1, 2), QCPRange(-2, 0)}

\* a DataType whose sortKeyIsMainKey() is true has points whose main key is
\* their sort key
MainKeyIsSortKey(s) == \A i \in begin(s)..(end(s) - 1) : mainKey(s.mData[i]) = sortKey(s.mData[i])

\* a const member returned: the container is as it was
Return(op, args, result) ==
  /\ pc' = "done"
  /\ before' = Store
  /\ call' = [op |-> op, args |-> args, result |-> result]
  /\ UNCHANGED <<mData, mPreallocSize, mPreallocIteration, mAutoSqueeze, alloc, balance, scen>>

Querying == pc = "query"

At(index) ==
  /\ Querying
  /\ Return("at", [index |-> index], at(Store, index))

FindBegin(k, expandedRange) ==
  /\ Querying
  /\ Return("findBegin", [sortKey |-> k, expandedRange |-> expandedRange],
            findBegin(Store, k, expandedRange))

FindEnd(k, expandedRange) ==
  /\ Querying
  /\ Return("findEnd", [sortKey |-> k, expandedRange |-> expandedRange],
            findEnd(Store, k, expandedRange))

KeyRange(signDomain, sortKeyIsMainKey) ==
  /\ Querying
  /\ sortKeyIsMainKey => MainKeyIsSortKey(Store)
  /\ Return("keyRange", [signDomain |-> signDomain, sortKeyIsMainKey |-> sortKeyIsMainKey],
            keyRange(Store, signDomain, sortKeyIsMainKey))

ValueRange(signDomain, inKeyRange, sortKeyIsMainKey) ==
  /\ Querying
  /\ sortKeyIsMainKey => MainKeyIsSortKey(Store)
  /\ Return("valueRange", [signDomain |-> signDomain, inKeyRange |-> inKeyRange,
                           sortKeyIsMainKey |-> sortKeyIsMainKey],
            valueRange(Store, signDomain, inKeyRange, sortKeyIsMainKey))

\* every query a caller can make
NextQuery ==
  \/ Querying /\ \E index \in QIndices : At(index)
  \/ Querying /\ \E k \in QProbeKeys, expandedRange \in BOOLEAN : FindBegin(k, expandedRange)
  \/ Querying /\ \E k \in QProbeKeys, expandedRange \in BOOLEAN : FindEnd(k, expandedRange)
  \/ Querying /\ \E signDomain \in SignDomains, sortKeyIsMainKey \in BOOLEAN :
                   KeyRange(signDomain, sortKeyIsMainKey)
  \/ Querying /\ \E signDomain \in SignDomains, inKeyRange \in InKeyRanges,
                      sortKeyIsMainKey \in BOOLEAN :
                   ValueRange(signDomain, inKeyRange, sortKeyIsMainKey)

\* One query on a container in any sorted state.
InitQuery ==
  /\ \E live \in QSortedLive, p \in 0..MaxQPool :
       /\ mData = [i \in 1..p |-> DeadSlot] \o live
       /\ mPreallocSize = p
       /\ balance = Len(live)
  /\ mPreallocIteration = 0
  /\ mAutoSqueeze = TRUE
  /\ alloc = Len(mData)
  /\ scen = -1
  /\ pc = "query"
  /\ before = EmptyStore
  /\ call = NoCall

SpecQuery == InitQuery /\ [][NextQuery]_vars

\* ---------------------------------------------------- one facade query
DataMainKey(index) ==
  /\ Querying
  /\ Return("dataMainKey", [index |-> index], dataMainKey(Store, index))

DataSortKey(index) ==
  /\ Querying
  /\ Return("dataSortKey", [index |-> index], dataSortKey(Store, index))

DataMainValue(index) ==
  /\ Querying
  /\ Return("dataMainValue", [index |-> index], dataMainValue(Store, index))

DataValueRange(index) ==
  /\ Querying
  /\ Return("dataValueRange", [index |-> index], dataValueRange(Store, index))

PlottableFindBegin(k, expandedRange) ==
  /\ Querying
  /\ Return("plottable.findBegin", [sortKey |-> k, expandedRange |-> expandedRange],
            plottable_findBegin(Store, k, expandedRange))

PlottableFindEnd(k, expandedRange) ==
  /\ Querying
  /\ Return("plottable.findEnd", [sortKey |-> k, expandedRange |-> expandedRange],
            plottable_findEnd(Store, k, expandedRange))

NextFacade ==
  \/ Querying /\ \E index \in QIndices : DataMainKey(index)
  \/ Querying /\ \E index \in QIndices : DataSortKey(index)
  \/ Querying /\ \E index \in QIndices : DataMainValue(index)
  \/ Querying /\ \E index \in QIndices : DataValueRange(index)
  \/ Querying /\ \E k \in QProbeKeys, expandedRange \in BOOLEAN :
                   PlottableFindBegin(k, expandedRange)
  \/ Querying /\ \E k \in QProbeKeys, expandedRange \in BOOLEAN :
                   PlottableFindEnd(k, expandedRange)

SpecFacade == InitQuery /\ [][NextFacade]_vars

\* ------------------------------------------------- the sizes alone
\* The squeeze decision and the growth schedule are functions of sizes; they
\* are applied to sizes around the thresholds of the bands and to every
\* iteration up to and beyond the clamp.
MaxOff == 1

MaxGrowths == 13

Around(n) == (n - MaxOff)..(n + MaxOff)

TotalAllocs == Around(SmallAlloc) \cup Around(LargeAlloc)

UsedSizes == (0..MaxOff) \cup Around(166) \cup Around(260000)

PreallocSizes == (0..6) \cup Around(249) \cup Around(26000)

SizesOnly ==
  /\ mData = EmptyStore.mData
  /\ mPreallocSize = EmptyStore.mPreallocSize
  /\ mPreallocIteration = EmptyStore.mPreallocIteration
  /\ mAutoSqueeze = EmptyStore.mAutoSqueeze
  /\ alloc = EmptyStore.alloc
  /\ balance = 0
  /\ scen = -1
  /\ before = EmptyStore

InitSizes ==
  /\ SizesOnly
  /\ \/ /\ pc = "decide"
        /\ \E totalAlloc \in TotalAllocs, usedSize \in UsedSizes, preallocSize \in PreallocSizes :
             /\ usedSize + preallocSize <= totalAlloc
             /\ call = [op |-> "", result |-> << >>,
                        args |-> [totalAlloc |-> totalAlloc,
                                  dataSize |-> preallocSize + usedSize,
                                  preallocSize |-> preallocSize]]
     \/ /\ pc = "schedule"
        /\ \E minimumPreallocSize \in 1..MaxMinimum, iteration \in 0..MaxGrowths :
             call = [op |-> "", result |-> << >>,
                     args |-> [minimumPreallocSize |-> minimumPreallocSize,
                               mPreallocIteration |-> iteration]]

DecideAutoSqueeze ==
  /\ pc = "decide"
  /\ Return("autoSqueezeDecision", call.args,
            autoSqueezeDecision(call.args.totalAlloc, call.args.dataSize,
                                call.args.preallocSize))

ScheduleGrowth ==
  /\ pc = "schedule"
  /\ Return("newPreallocSize", call.args,
            newPreallocSize(call.args.minimumPreallocSize, call.args.mPreallocIteration))

NextSizes ==
  \/ DecideAutoSqueeze
  \/ ScheduleGrowth

SpecSizes == InitSizes /\ [][NextSizes]_vars

\* ---------------------------------------------------- one selection test
\* selectTest swaps its two keys into order and QCPRange orders those of
\* selectTestRect, so the smaller key comes first.
SelectScan(keyMin, keyMax, expandedRange) ==
  /\ Querying
  /\ keyMin <= keyMax
  /\ Return("selectTest", [keyMin |-> keyMin, keyMax |-> keyMax, expandedRange |-> expandedRange],
            scanRange(Store, keyMin, keyMax, expandedRange))

NextScan ==
  \/ Querying /\ \E keyMin \in QProbeKeys, keyMax \in QProbeKeys, expandedRange \in BOOLEAN :
                   SelectScan(keyMin, keyMax, expandedRange)

SpecScan == InitQuery /\ [][NextScan]_vars

\* =================================================================== claims
\* What the claims speak of: the live range now and before the call, key
\* sequences, sorted key sequences, multisets of points.
LiveNow == Live(Store)

LiveBefore == Live(before)

KeysOf(q) == [i \in 1..Len(q) |-> sortKey(q[i])]

NonDecreasing(q) == \A i \in 1..Len(q), j \in 1..Len(q) : i < j => sortKey(q[i]) <= sortKey(q[j])

RECURSIVE InsertKey(_, _)
InsertKey(ks, k) ==
  IF ks = << >> THEN <<k>>
  ELSE IF k <= Head(ks) THEN <<k>> \o ks
  ELSE <<Head(ks)>> \o InsertKey(Tail(ks), k)

RECURSIVE SortedKeys(_)
SortedKeys(ks) == IF ks = << >> THEN << >> ELSE InsertKey(SortedKeys(Tail(ks)), Head(ks))

Count(q, x) == Cardinality({i \in 1..Len(q) : q[i] = x})

SameBag(a, b) ==
  /\ Len(a) = Len(b)
  /\ \A i \in 1..Len(a) : Count(a, a[i]) = Count(b, a[i])

KeptAbove(q, k) == LET keep(p) == sortKey(p) > k IN SelectSeq(q, keep)

KeptBelow(q, k) == LET keep(p) == sortKey(p) < k IN SelectSeq(q, keep)

KeptOutside(q, from, to) ==
  LET keep(p) == ~(from <= sortKey(p) /\ sortKey(p) <= to) IN SelectSeq(q, keep)

Did(op) == pc = "done" /\ call.op = op

C2_SizeIsBalance == size(Store) = balance

\* a run after which points are live behind a pool that holds more than one
\* growth leaves, so that a growth and a lazy removal both happened
C2_Witness ==
  /\ pc = "run"
  /\ balance >= 2
  /\ mPreallocSize >= 6
  /\ mPreallocIteration > 0

\* C3: on a container in any sorted state (an empty one that still has a pool
\* included) add(point) leaves the key sequence of the old live range with the
\* point's key sorted in, whichever branch runs, and size() grows by one.
C3_AddPointIsSortedInsert ==
  Did("add_point") =>
    /\ KeysOf(LiveNow) = SortedKeys(KeysOf(LiveBefore) \o KeysOf(call.data))
    /\ size(Store) = size(before) + 1

\* the insert branch ran on a container with a pool, between two live keys
C3_Witness ==
  /\ Did("add_point")
  /\ call.path = "add1:insert"
  /\ before.mPreallocSize > 0
  /\ sortKey(LiveBefore[1]) < sortKey(call.data[1])
  /\ sortKey(call.data[1]) < sortKey(LiveBefore[Len(LiveBefore)])

\* C4: on a non-empty sorted container, add of a non-empty vector (unsorted
\* with alreadySorted=false, or sorted with alreadySorted=true) or of another
\* container leaves the key sequence of the sorted merge of old live range
\* and input: for interleaving input, input at or below the minimum, and
\* input at or above the maximum.
C4_AddRangeIsSortedMerge ==
  (Did("add_vector") \/ Did("add_container")) /\ ~isEmpty(before) /\ call.data # << >> =>
    KeysOf(LiveNow) = SortedKeys(KeysOf(LiveBefore) \o KeysOf(call.data))

\* the documented example's shape: keys 3,7 live, a sorted vector of key 5
\* added, through the append and merge branch
C4_Witness ==
  /\ Did("add_vector")
  /\ call.path = "add:merge"
  /\ call.flags = <<TRUE>>
  /\ KeysOf(LiveBefore) = <<3, 7>>
  /\ KeysOf(call.data) = <<5>>
  /\ KeysOf(LiveNow) = <<3, 5, 7>>

\* C5: set(vector, alreadySorted=false) on a container in any state leaves
\* exactly the points of the vector, in non-decreasing order of sort key, and
\* nothing of the previous contents.
C5_SetIsSorted ==
  Did("set_vector") /\ call.flags = <<FALSE>> =>
    /\ NonDecreasing(LiveNow)
    /\ SameBag(LiveNow, call.data)
    /\ size(Store) = Len(call.data)

\* an unsorted vector replaced contents that held a point the vector lacks
C5_Witness ==
  /\ Did("set_vector")
  /\ call.flags = <<FALSE>>
  /\ call.data = <<Pt(7, 70), Pt(3, 30)>>
  /\ \E i \in 1..Len(LiveBefore) : sortKey(LiveBefore[i]) = 5
  /\ LiveNow = <<Pt(3, 30), Pt(7, 70)>>

\* C6: removeBefore(k) removes every point with sort key smaller than or equal
\* to k and keeps, in order, exactly the points with key > k.
C6_RemoveBeforeKeepsAbove ==
  Did("removeBefore") => LiveNow = KeptAbove(LiveBefore, call.keys[1])

\* C7: removeAfter(k) removes every point with sort key greater than or equal
\* to k and keeps, in order, exactly the points with key < k.
C7_RemoveAfterKeepsBelow ==
  Did("removeAfter") => LiveNow = KeptBelow(LiveBefore, call.keys[1])

\* C8: the documented example, step by step: on a fresh container
\* add([(5,50),(6,60),(7,70)], sorted), add((3,30)) give (3,30),(5,50),(6,60),
\* (7,70); removeBefore(5) gives (5,50),(6,60),(7,70), size 3; removeAfter(6)
\* gives (5,50), size 1.
C8_Scenario ==
  /\ scen = 2 => LiveNow = <<Pt(3, 30), Pt(5, 50), Pt(6, 60), Pt(7, 70)>>
  /\ scen = 3 => LiveNow = <<Pt(5, 50), Pt(6, 60), Pt(7, 70)>> /\ size(Store) = 3
  /\ scen = 4 => LiveNow = <<Pt(5, 50)>> /\ size(Store) = 1

\* C9: remove(from, to) with from < to on a non-empty sorted container removes
\* exactly the points with from <= key <= to and leaves the others in order.
C9_RemoveRangeInclusive ==
  Did("remove_range") /\ call.keys[1] < call.keys[2] /\ ~isEmpty(before) =>
    LiveNow = KeptOutside(LiveBefore, call.keys[1], call.keys[2])

\* a point with key equal to the lower bound was erased from between two
\* points that stayed
C9_Witness ==
  /\ Did("remove_range")
  /\ call.path = "remove2:erase"
  /\ call.keys = <<5, 6>>
  /\ KeysOf(LiveBefore) = <<3, 5, 7>>
  /\ KeysOf(LiveNow) = <<3, 7>>

\* C10: remove(from, to) with from >= to, or on an empty container, changes
\* nothing: buffer, pool size, growth count and capacity stay, and no auto
\* squeeze runs.
C10_RemoveRangeNothing ==
  Did("remove_range") /\ (call.keys[1] >= call.keys[2] \/ isEmpty(before)) =>
    /\ mData = before.mData
    /\ mPreallocSize = before.mPreallocSize
    /\ mPreallocIteration = before.mPreallocIteration
    /\ alloc = before.alloc
    /\ call.squeezed = "no"

\* from = to = 6 with a point of key 6 live, on a container whose auto
\* squeeze would have released memory had it run
C10_Witness ==
  /\ Did("remove_range")
  /\ call.keys = <<6, 6>>
  /\ \E i \in 1..Len(LiveBefore) : sortKey(LiveBefore[i]) = 6
  /\ before.mAutoSqueeze
  /\ performAutoSqueeze(before).squeezed # "no"
  /\ LiveNow = LiveBefore

\* q without its element at position i
WithoutAt(q, i) == SubSeq(q, 1, i - 1) \o SubSeq(q, i + 1, Len(q))

HasKey(q, k) == \E i \in 1..Len(q) : sortKey(q[i]) = k

\* C11: remove(k) on a sorted container removes exactly one point of sort key
\* k when there is one (size() drops by 1, also when several points share the
\* key and when the point is the first live one and goes into the pool), and
\* leaves the live range as it was when no point has key k.
C11_RemoveKeyRemovesOne ==
  Did("remove_key") =>
    IF HasKey(LiveBefore, call.keys[1])
    THEN /\ size(Store) = size(before) - 1
         /\ \E i \in 1..Len(LiveBefore) :
              /\ sortKey(LiveBefore[i]) = call.keys[1]
              /\ LiveNow = WithoutAt(LiveBefore, i)
    ELSE LiveNow = LiveBefore

\* two points of key 6 at the front of the live range, one of them moved into
\* the pool
C11_Witness ==
  /\ Did("remove_key")
  /\ call.path = "remove1:front"
  /\ call.keys = <<6>>
  /\ Len(LiveBefore) >= 2
  /\ sortKey(LiveBefore[1]) = 6
  /\ sortKey(LiveBefore[2]) = 6
  /\ LiveNow = Tail(LiveBefore)

\* C12: squeeze(preAllocation, postAllocation), for every combination of the
\* two flags and every container state, leaves the live range (points and
\* order), size() and the auto squeeze setting as they were; only
\* mPreallocSize, mPreallocIteration and the capacity may change.
C12_SqueezeKeepsLiveRange ==
  Did("squeeze") =>
    /\ LiveNow = LiveBefore
    /\ size(Store) = size(before)
    /\ mAutoSqueeze = before.mAutoSqueeze

\* both pools released from under a live range of two keys
C12_Witness ==
  /\ Did("squeeze")
  /\ call.flags = <<TRUE, TRUE>>
  /\ before.mPreallocSize > 0
  /\ before.alloc > Len(before.mData)
  /\ Len(LiveBefore) >= 2
  /\ sortKey(LiveBefore[1]) < sortKey(LiveBefore[Len(LiveBefore)])
  /\ mPreallocSize = 0
  /\ alloc = Len(mData)

\* C15: in every reachable state 0 <= mPreallocSize <= mData.size() and
\* size() = mData.size() - mPreallocSize >= 0: a prepend never takes the pool
\* below zero, removeBefore and remove(key) never take it past the buffer.
C15_PoolWithinBuffer ==
  /\ 0 <= mPreallocSize
  /\ mPreallocSize <= Len(mData)
  /\ size(Store) = Len(mData) - mPreallocSize
  /\ size(Store) >= 0

\* after a prepend grew the pool, every live point was moved into the pool:
\* the pool is the whole buffer
C15_Witness ==
  /\ pc = "run"
  /\ mPreallocIteration > 0
  /\ Len(mData) > 0
  /\ mPreallocSize = Len(mData)

\* ------------------------------------------------------------ the queries
\* the query made, its arguments and what it returned
Asked(op) == pc = "done" /\ call.op = op

LivePositions == begin(Store)..(end(Store) - 1)

\* C13: for any sorted container and key k, the positions from
\* findBegin(k, false) up to but not including findEnd(k, false) are exactly
\* those of the live points whose sort key is k (none when no point has it).
C13_FindBracketsKey ==
  Asked("findBegin") /\ ~call.args.expandedRange =>
    LET k == call.args.sortKey
        first == call.result
        last == findEnd(Store, k, FALSE)
    IN /\ begin(Store) <= first
       /\ first <= last
       /\ last <= end(Store)
       /\ \A i \in LivePositions : (first <= i /\ i < last) <=> sortKey(mData[i]) = k

\* two points of the key after a point of a smaller key, behind a pool
C13_Witness ==
  /\ Asked("findBegin")
  /\ ~call.args.expandedRange
  /\ mPreallocSize > 0
  /\ call.result = begin(Store) + 1
  /\ findEnd(Store, call.args.sortKey, FALSE) = call.result + 2
  /\ sortKey(mData[call.result]) = call.args.sortKey
  /\ sortKey(mData[call.result + 1]) = call.args.sortKey

\* C14: on a non-empty sorted container findBegin(k, true) is
\* findBegin(k, false) moved one point to the front unless that is constBegin
\* already, and findEnd(k, true) is findEnd(k, false) moved one point to the
\* back unless that is constEnd already; neither leaves [constBegin, constEnd].
C14_ExpandedByOne ==
  /\ Asked("findBegin") /\ call.args.expandedRange /\ ~isEmpty(Store) =>
       LET plain == findBegin(Store, call.args.sortKey, FALSE)
       IN /\ call.result = IF plain = begin(Store) THEN begin(Store) ELSE plain - 1
          /\ begin(Store) <= call.result
          /\ call.result <= end(Store)
  /\ Asked("findEnd") /\ call.args.expandedRange /\ ~isEmpty(Store) =>
       LET plain == findEnd(Store, call.args.sortKey, FALSE)
       IN /\ call.result = IF plain = end(Store) THEN end(Store) ELSE plain + 1
          /\ begin(Store) <= call.result
          /\ call.result <= end(Store)

\* findBegin(k, true) for a key the first live point already has, on a
\* container with a pool: the result stays at constBegin
C14_Witness ==
  /\ Asked("findBegin")
  /\ call.args.expandedRange
  /\ mPreallocSize > 0
  /\ size(Store) >= 2
  /\ sortKey(mData[begin(Store)]) = call.args.sortKey
  /\ call.result = begin(Store)

\* C17 as stated: at(i) is constEnd for every index out of bounds, i < 0 as
\* well as i >= size(), and the position of point i for 0 <= i < size().
C17_AtEndWhenOutOfBounds ==
  Asked("at") =>
    call.result = IF call.args.index < 0 \/ call.args.index >= size(Store)
                  THEN end(Store) ELSE begin(Store) + call.args.index

\* C17, as the code has it: at(i) is constBegin + qBound(0, i, size()), that
\* is constBegin for every i < 0, constEnd for every i >= size(), and the
\* position of point i for 0 <= i < size().
C17_AtClampsIndex ==
  Asked("at") =>
    call.result = IF call.args.index < 0 THEN begin(Store)
                  ELSE IF call.args.index >= size(Store) THEN end(Store)
                  ELSE begin(Store) + call.args.index

\* a negative index on a non-empty container with a pool: the first live
\* point, not constEnd
C17_Witness ==
  /\ Asked("at")
  /\ call.args.index < 0
  /\ mPreallocSize > 0
  /\ ~isEmpty(Store)
  /\ call.result = begin(Store)
  /\ call.result # end(Store)

\* a coordinate lies in the sign domain asked for: anywhere, strictly below
\* zero, strictly above zero
OfSign(x, signDomain) ==
  \/ signDomain = "sdBoth"
  \/ signDomain = "sdNegative" /\ x < 0
  \/ signDomain = "sdPositive" /\ x > 0

HasValue(p) == mainValue(p) # NaN

SetMin(S) == CHOOSE x \in S : \A y \in S : x <= y

SetMax(S) == CHOOSE x \in S : \A y \in S : x >= y

\* the container without its points of NaN main value
WithoutNaNValued == [Store EXCEPT !.mData = SubSeq(mData, 1, mPreallocSize)
                                              \o SelectSeq(LiveNow, HasValue)]

KeysCounted(signDomain) ==
  {mainKey(mData[i]) : i \in {j \in LivePositions :
                                 HasValue(mData[j]) /\ OfSign(mainKey(mData[j]), signDomain)}}

\* C19: keyRange for the negative (positive) sign domain returns, when found,
\* the least and the greatest main key among the points of non-NaN value with
\* main key < 0 (> 0); keys that are 0 or of the other sign never count, and
\* found is false when there are only such.
C19_KeyRangeOfSign ==
  Asked("keyRange") /\ call.args.signDomain \in {"sdNegative", "sdPositive"} =>
    LET counted == KeysCounted(call.args.signDomain)
    IN /\ call.result.found <=> counted # {}
       /\ call.result.found =>
            /\ call.result.lower = SetMin(counted)
            /\ call.result.upper = SetMax(counted)

\* two negative keys counted, a key 0 and a positive key left out
C19_Witness ==
  /\ Asked("keyRange")
  /\ call.args.signDomain = "sdNegative"
  /\ call.result = [found |-> TRUE, lower |-> -2, upper |-> -1]
  /\ \E i \in LivePositions : HasValue(mData[i]) /\ mainKey(mData[i]) = 0

\* the live points valueRange visits for a key range
Visited(inKeyRange) ==
  {i \in LivePositions :
     inKeyRange # QCPRange0 =>
       inKeyRange.lower <= mainKey(mData[i]) /\ mainKey(mData[i]) <= inKeyRange.upper}

LowersCounted(signDomain, inKeyRange) ==
  {valueRangeOf(mData[i]).lower : i \in {j \in Visited(inKeyRange) :
     valueRangeOf(mData[j]).lower # NaN /\ OfSign(valueRangeOf(mData[j]).lower, signDomain)}}

UppersCounted(signDomain, inKeyRange) ==
  {valueRangeOf(mData[i]).upper : i \in {j \in Visited(inKeyRange) :
     valueRangeOf(mData[j]).upper # NaN /\ OfSign(valueRangeOf(mData[j]).upper, signDomain)}}

\* C20: valueRange ignores the NaN bounds of single points: the lower (upper)
\* bound returned is the least (greatest) of the non-NaN lower (upper) bounds
\* that count, wherever the points of NaN bounds stand, and no bound returned
\* with found true is NaN.
C20_ValueRangeSkipsNaN ==
  Asked("valueRange") =>
    LET lowers == LowersCounted(call.args.signDomain, call.args.inKeyRange)
        uppers == UppersCounted(call.args.signDomain, call.args.inKeyRange)
    IN /\ call.result.found <=> lowers # {} /\ uppers # {}
       /\ lowers # {} => call.result.lower = SetMin(lowers)
       /\ uppers # {} => call.result.upper = SetMax(uppers)
       /\ call.result.found => call.result.lower # NaN /\ call.result.upper # NaN

\* the first point visited has a NaN lower bound, a later one a NaN upper
\* bound: each gives the bound it has
C20_Witness ==
  /\ Asked("valueRange")
  /\ call.args.signDomain = "sdBoth"
  /\ size(Store) >= 2
  /\ valueRangeOf(LiveNow[1]) = QCPRange(NaN, 5)
  /\ valueRangeOf(LiveNow[2]) = QCPRange(-3, NaN)
  /\ call.result = [found |-> TRUE, lower |-> -3, upper |-> 5]

\* the container with its pool released: the live range alone
LiveOnly == [Store EXCEPT !.mData = LiveNow, !.mPreallocSize = 0]

Iterators == begin(Store)..end(Store)

\* C16: what is in the pool or behind the live range never shows: after any
\* run of calls every point of constBegin()..constEnd() is a point a caller
\* handed in (never a dead slot of the pool, never a slot a resize filled);
\* at, findBegin and findEnd return iterators of that range only; keyRange
\* and valueRange are those of the live range alone. Points moved into the
\* pool by removeBefore or remove(key) stay out through later adds, pool
\* growth and squeezes.
C16_NoSlackExposed ==
  /\ \A i \in LivePositions : mData[i] \in Points
  /\ \A index \in QIndices : at(Store, index) \in Iterators
  /\ \A k \in ProbeKeys, expandedRange \in BOOLEAN :
       /\ findBegin(Store, k, expandedRange) \in Iterators
       /\ findEnd(Store, k, expandedRange) \in Iterators
  /\ \A signDomain \in SignDomains :
       /\ keyRange(Store, signDomain, TRUE) = keyRange(LiveOnly, signDomain, TRUE)
       /\ \A inKeyRange \in InKeyRanges :
            valueRange(Store, signDomain, inKeyRange, TRUE)
              = valueRange(LiveOnly, signDomain, inKeyRange, TRUE)

\* a pool of six slots, more than a growth leaves: points were moved into it
\* by removeBefore or remove(key), and (3,30) stands before (7,70) in front
\* of it
C16_Witness ==
  /\ pc = "run"
  /\ mPreallocIteration = 1
  /\ mPreallocSize = 6
  /\ LiveNow = <<Pt(3, 30), Pt(7, 70)>>

InWindow(p, inKeyRange) ==
  inKeyRange.lower <= mainKey(p) /\ mainKey(p) <= inKeyRange.upper

\* the container holding only its points of main key within inKeyRange
WindowOnly(inKeyRange) ==
  LET keep(p) == InWindow(p, inKeyRange)
  IN [Store EXCEPT !.mData = SubSeq(mData, 1, mPreallocSize) \o SelectSeq(LiveNow, keep)]

\* C21: valueRange with a key window [lo, hi] (lo <= hi, not both zero)
\* counts exactly the points with lo <= main key <= hi: the result is that of
\* the container holding only those points, asked without a window; and where
\* the sort key is the main key, narrowing by findBegin(lo)/findEnd(hi) gives
\* what visiting every point and testing its main key gives.
C21_ValueRangeWindow ==
  Asked("valueRange") /\ call.args.inKeyRange # QCPRange0 =>
    /\ call.result = valueRange(WindowOnly(call.args.inKeyRange), call.args.signDomain,
                                QCPRange0, FALSE)
    /\ call.result = valueRange(Store, call.args.signDomain, call.args.inKeyRange, FALSE)

\* narrowed search: a point before the window and a point behind it, with a
\* value that the point inside does not have
C21_Witness ==
  /\ Asked("valueRange")
  /\ call.args.sortKeyIsMainKey
  /\ call.args.signDomain = "sdBoth"
  /\ call.args.inKeyRange = QCPRange(-1, 1)
  /\ mPreallocSize > 0
  /\ LiveNow = <<QPt(-2, -2, 4, 4, 4), QPt(1, 1, -3, -3, -3), QPt(2, 2, 4, 4, 4)>>
  /\ call.result = [found |-> TRUE, lower |-> -3, upper |-> -3]

\* C22: keyRange reports foundRange = false when the container is empty or
\* all points have the same key, valueRange when it is empty or all points
\* have the same value: a range with lower = upper is not reported as found.
C22_DegenerateNotFound ==
  /\ Asked("keyRange")
       /\ (isEmpty(Store) \/ \A i \in LivePositions, j \in LivePositions :
                               mainKey(mData[i]) = mainKey(mData[j]))
       => ~call.result.found
  /\ Asked("valueRange")
       /\ (isEmpty(Store) \/ \A i \in LivePositions, j \in LivePositions :
                               /\ valueRangeOf(mData[i]) = valueRangeOf(mData[j])
                               /\ valueRangeOf(mData[i]).lower = valueRangeOf(mData[i]).upper)
       => ~call.result.found

\* C13's bracket, for a container s and key k
Brackets(s, k) ==
  \A i \in begin(s)..(end(s) - 1) :
    (findBegin(s, k, FALSE) <= i /\ i < findEnd(s, k, FALSE)) <=> sortKey(s.mData[i]) = k

\* C23: after any edits of sort keys through the non-const iterators, one
\* sort() call leaves the live range non-decreasing by sort key, with the same
\* points (as a multiset), the same mPreallocSize and size(), so that
\* findBegin/findEnd bracket every key again and remove(from, to) removes
\* exactly the keys of its range.
C23_SortRestores ==
  Did("sort") =>
    /\ NonDecreasing(LiveNow)
    /\ SameBag(LiveNow, LiveBefore)
    /\ mPreallocSize = before.mPreallocSize
    /\ size(Store) = size(before)
    /\ \A k \in ProbeKeys : Brackets(Store, k)
    /\ \A from \in ProbeKeys, to \in ProbeKeys :
         from < to => Live(remove_range(Store, from, to)) = KeptOutside(LiveNow, from, to)

\* edits left the keys 7, 3, 5 in that order behind a pool, where findBegin
\* and findEnd no longer bracketed a key
C23_Witness ==
  /\ Did("sort")
  /\ before.mPreallocSize > 0
  /\ KeysOf(LiveBefore) = <<7, 3, 5>>
  /\ \E k \in ProbeKeys : ~Brackets(before, k)
  /\ KeysOf(LiveNow) = <<3, 5, 7>>

\* --------------------------------------------------------------- the facade
OutOfBounds(index) == index < 0 \/ index >= dataCount(Store)

\* C24: dataMainKey, dataSortKey, dataMainValue and dataValueRange return 0
\* (dataValueRange the range (0, 0)) for an index below 0 or at or above
\* dataCount(), and otherwise the field of the index-th point of the live
\* range, counted from 0; the container is as it was.
C24_FacadeByIndex ==
  LET index == call.args.index
      p == LiveNow[index + 1]
  IN /\ Asked("dataMainKey") =>
          call.result = IF OutOfBounds(index) THEN 0 ELSE mainKey(p)
     /\ Asked("dataSortKey") =>
          call.result = IF OutOfBounds(index) THEN 0 ELSE sortKey(p)
     /\ Asked("dataMainValue") =>
          call.result = IF OutOfBounds(index) THEN 0 ELSE mainValue(p)
     /\ Asked("dataValueRange") =>
          call.result = IF OutOfBounds(index) THEN QCPRange(0, 0) ELSE valueRangeOf(p)
     /\ pc = "done" => Store = before

\* index -1 asked of a container with a pool: the slot before the live range
\* holds another value, and 0 is returned
C24_Witness ==
  /\ Asked("dataMainValue")
  /\ call.args.index = -1
  /\ mPreallocSize > 0
  /\ ~isEmpty(Store)
  /\ mainValue(mData[begin(Store) - 1]) # 0
  /\ call.result = 0

\* C25: on an empty container, with or without a pool, findBegin and findEnd
\* return constEnd() for every key and either expandedRange, and the facade's
\* findBegin and findEnd return index 0.
C25_EmptyFinds ==
  (Asked("plottable.findBegin") \/ Asked("plottable.findEnd")) /\ isEmpty(Store) =>
    /\ call.result = 0
    /\ findBegin(Store, call.args.sortKey, call.args.expandedRange) = end(Store)
    /\ findEnd(Store, call.args.sortKey, call.args.expandedRange) = end(Store)

\* an empty container that still holds a pool
C25_Witness ==
  /\ Asked("plottable.findBegin")
  /\ isEmpty(Store)
  /\ mPreallocSize > 0
  /\ call.args.expandedRange
  /\ call.result = 0

\* ---------------------------------------------------------------- the sizes
\* C26: with total = capacity, back = capacity - buffer length and used =
\* size(): above 650000 total the back is released iff back > 1.5 used and the
\* front iff 10 pool > used; above 1000 and up to 650000 the back iff
\* back > 5 used and the front iff pool > 1.5 used; up to 1000 nothing is
\* released.
C26_SqueezeBands ==
  Asked("autoSqueezeDecision") =>
    LET total == call.args.totalAlloc
        frontSlack == call.args.preallocSize
        used == call.args.dataSize - frontSlack
        back == total - call.args.dataSize
        large == total > 650000
        middle == 1000 < total /\ total <= 650000
    IN /\ call.result.shrinkPostAllocation <=>
            (large /\ 10 * back > 15 * used) \/ (middle /\ back > 5 * used)
       /\ call.result.shrinkPreAllocation <=>
            (large /\ frontSlack * 10 > used) \/ (middle /\ 10 * frontSlack > 15 * used)

\* capacity exactly 650000 with the pool at exactly 1.5 times the used size:
\* the back is released and the front is kept
C26_Witness ==
  /\ Asked("autoSqueezeDecision")
  /\ call.args.totalAlloc = 650000
  /\ call.args.preallocSize = 249
  /\ call.args.dataSize = 249 + 166
  /\ call.result.shrinkPostAllocation
  /\ ~call.result.shrinkPreAllocation

\* the extra slots of the (i+1)-th growth: 4 at first, then twice the
\* previous extra plus 12, until 32756 is reached with the twelfth growth
RECURSIVE ScheduleExtra(_)
ScheduleExtra(i) ==
  IF i = 0 THEN 4
  ELSE IF i <= 11 THEN 2 * ScheduleExtra(i - 1) + 12
  ELSE ScheduleExtra(i - 1)

\* the extra slots as stated: 16 at first, doubling up to 32768 - 12
RECURSIVE StatedExtra(_)
StatedExtra(i) ==
  IF i = 0 THEN 16
  ELSE IF 2 * StatedExtra(i - 1) < 32756 THEN 2 * StatedExtra(i - 1)
  ELSE 32756

\* C29 as stated: the first growth sets the pool to minimum + 16 and each
\* following growth adds twice the previous extra, up to the ceiling.
C29_DoublesFromSixteen ==
  Asked("newPreallocSize") =>
    call.result = call.args.minimumPreallocSize + StatedExtra(call.args.mPreallocIteration)

\* C29: the new pool size is the minimum plus 2^(4 + min(iteration, 11)) - 12:
\* 4 at the first growth, 20, 52, 116, ... after it (the power of two doubles,
\* the extra itself does not), and 32756 from the twelfth growth on.
C29_Schedule ==
  Asked("newPreallocSize") =>
    call.result = call.args.minimumPreallocSize + ScheduleExtra(call.args.mPreallocIteration)

\* the first growth, asked for one slot, makes a pool of five
C29_Witness ==
  /\ Asked("newPreallocSize")
  /\ call.args.mPreallocIteration = 0
  /\ call.args.minimumPreallocSize = 1
  /\ call.result = 5

\* --------------------------------------------------- the pool and the capacity
\* C28: preallocateGrow(minimum) with minimum above mPreallocSize keeps the
\* live range (the same points in the same order, at the end of the enlarged
\* buffer) and size(), leaves mPreallocSize >= minimum and adds exactly 1 to
\* mPreallocIteration; with minimum <= mPreallocSize it changes nothing.
C28_GrowKeepsLive ==
  Did("preallocateGrow") =>
    IF call.keys[1] > before.mPreallocSize
    THEN /\ LiveNow = LiveBefore
         /\ size(Store) = size(before)
         /\ Len(mData) = mPreallocSize + size(before)
         /\ mPreallocSize >= call.keys[1]
         /\ mPreallocIteration = before.mPreallocIteration + 1
    ELSE /\ mData = before.mData
         /\ mPreallocSize = before.mPreallocSize
         /\ mPreallocIteration = before.mPreallocIteration
         /\ alloc = before.alloc

\* a second growth of a pool of one slot in front of three points
C28_Witness ==
  /\ Did("preallocateGrow")
  /\ call.keys[1] = 2
  /\ before.mPreallocSize = 1
  /\ before.mPreallocIteration = 1
  /\ Len(LiveBefore) = 3
  /\ mPreallocSize = 22
  /\ mPreallocIteration = 2

\* C30 as stated: after squeeze with postAllocation the capacity equals
\* size(), whatever preAllocation is.
C30_CapacityIsSize ==
  Did("squeeze") /\ call.flags[2] => alloc = size(Store)

\* C30: after squeeze with postAllocation the capacity equals the length of
\* the buffer, mPreallocSize + size(); it equals size() when preAllocation is
\* set as well or the pool was empty.
C30_CapacityIsBuffer ==
  Did("squeeze") /\ call.flags[2] =>
    /\ alloc = Len(mData)
    /\ alloc = mPreallocSize + size(Store)
    /\ call.flags[1] \/ before.mPreallocSize = 0 => alloc = size(Store)

\* only the back released, with a pool in front and spare capacity behind
C30_Witness ==
  /\ Did("squeeze")
  /\ call.flags = <<FALSE, TRUE>>
  /\ before.mPreallocSize > 0
  /\ before.alloc > Len(before.mData)
  /\ ~isEmpty(Store)
  /\ alloc = size(Store) + mPreallocSize
  /\ alloc > size(Store)

\* C27: a caller that forever adds a new smallest key and removes it again,
\* with auto squeeze enabled, sees performAutoSqueeze release a pool in only
\* finitely many of its calls: from some call on, no call squeezes.
C27_NoOscillation == <>[](call.squeezed = "no")

\* the calls that reset the pool and its growth iteration; add(vector) on an
\* empty container is a call of set(vector)
Resets ==
  \/ call.op \in {"clear", "set_vector", "set_container"}
  \/ call.path = "add:set"
  \/ call.op = "squeeze" /\ call.flags[1]
  \/ call.squeezed \in {"pre", "both"}

\* C31: squeeze with preAllocation ends with mPreallocSize = 0 and
\* mPreallocIteration = 0, also when the pool was empty already; squeeze
\* without preAllocation leaves both as they were; and no call other than
\* clear, set (also as called by add on an empty container) and a squeeze of
\* the pool (asked for or decided by performAutoSqueeze) lowers
\* mPreallocIteration.
C31_FrontSqueezeResets ==
  /\ Did("squeeze") /\ call.flags[1] => mPreallocSize = 0 /\ mPreallocIteration = 0
  /\ Did("squeeze") /\ ~call.flags[1] =>
       mPreallocSize = before.mPreallocSize /\ mPreallocIteration = before.mPreallocIteration
  /\ pc = "done" /\ ~Resets => mPreallocIteration >= before.mPreallocIteration

\* a container that grew its pool once and used it up, squeezed in front
C31_Witness ==
  /\ Did("squeeze")
  /\ call.flags = <<TRUE, FALSE>>
  /\ before.mPreallocSize = 0
  /\ before.mPreallocIteration = 1
  /\ ~isEmpty(Store)
  /\ mPreallocIteration = 0

\* C32: a removeBefore call in which performAutoSqueeze released nothing (or
\* did not run) leaves the length and the capacity of the buffer as they were,
\* every surviving point in its slot, and mPreallocSize larger by the number
\* of points removed.
C32_RemoveBeforeLazy ==
  Did("removeBefore") /\ call.squeezed = "no" =>
    /\ Len(mData) = Len(before.mData)
    /\ alloc = before.alloc
    /\ \A i \in begin(Store)..(end(Store) - 1) : mData[i] = before.mData[i]
    /\ mPreallocSize - before.mPreallocSize = size(before) - size(Store)
    /\ mPreallocSize - before.mPreallocSize =
         Cardinality({i \in begin(before)..(end(before) - 1) :
                        sortKey(before.mData[i]) < call.keys[1]})

\* two of three points removed with auto squeeze on and nothing to release
C32_Witness ==
  /\ Did("removeBefore")
  /\ call.squeezed = "no"
  /\ before.mAutoSqueeze
  /\ before.mPreallocSize = 1
  /\ size(before) = 3
  /\ size(Store) = 1
  /\ mPreallocSize = 3

\* a removal that reached its "if (mAutoSqueeze) performAutoSqueeze();"
RanAutoSqueeze ==
  /\ pc = "done"
  /\ call.op \in {"removeBefore", "removeAfter", "remove_range", "remove_key"}
  /\ call.path # "remove2:nothing"
  /\ before.mAutoSqueeze

\* C33: right after a removal that ran performAutoSqueeze, running
\* performAutoSqueeze once more releases nothing.
C33_AutoSqueezeIdempotent ==
  RanAutoSqueeze => performAutoSqueeze(Store).squeezed = "no"

Removals == {"removeBefore", "removeAfter", "remove_range", "remove_key"}

SameContainer ==
  /\ mData = before.mData
  /\ mPreallocSize = before.mPreallocSize
  /\ mPreallocIteration = before.mPreallocIteration
  /\ alloc = before.alloc

\* what the bands say of the container before the call
BandsBefore == autoSqueezeDecision(before.alloc, Len(before.mData), before.mPreallocSize)

\* C34: with auto squeeze disabled, removeBefore, removeAfter and both remove
\* overloads never lower mPreallocSize, mPreallocIteration or the capacity;
\* setAutoSqueeze(true) runs the check once when the flag was false, changes
\* nothing when the flag was true already, and setAutoSqueeze(false) releases
\* nothing.
C34_NoSqueezeWhileDisabled ==
  /\ pc = "done" /\ call.op \in Removals /\ ~before.mAutoSqueeze =>
       /\ call.squeezed = "no"
       /\ mPreallocSize >= before.mPreallocSize
       /\ mPreallocIteration = before.mPreallocIteration
       /\ alloc = before.alloc
       /\ ~mAutoSqueeze
  /\ Did("setAutoSqueeze") /\ call.flags[1] /\ before.mAutoSqueeze =>
       SameContainer /\ mAutoSqueeze /\ call.squeezed = "no"
  /\ Did("setAutoSqueeze") /\ call.flags[1] /\ ~before.mAutoSqueeze =>
       /\ mAutoSqueeze
       /\ call.squeezed \in {"pre", "both"} <=> BandsBefore.shrinkPreAllocation
       /\ call.squeezed \in {"post", "both"} <=> BandsBefore.shrinkPostAllocation
       /\ call.squeezed = "no" => SameContainer
       /\ BandsBefore.shrinkPreAllocation => mPreallocSize = 0
       /\ BandsBefore.shrinkPostAllocation => alloc = Len(mData)
       /\ LiveNow = LiveBefore
  /\ Did("setAutoSqueeze") /\ ~call.flags[1] =>
       SameContainer /\ ~mAutoSqueeze /\ call.squeezed = "no"

\* auto squeeze switched on over a container whose pools are worth releasing
C34_Witness ==
  /\ Did("setAutoSqueeze")
  /\ call.flags = <<TRUE>>
  /\ ~before.mAutoSqueeze
  /\ before.mPreallocSize > 0
  /\ before.alloc > SmallAlloc
  /\ ~isEmpty(Store)
  /\ call.squeezed = "both"
  /\ mPreallocSize = 0
  /\ alloc = size(Store)

\* C35: on a sorted container, for keys lo <= hi and either expandedRange,
\* findBegin(lo) is at or before findEnd(hi), both are within
\* constBegin()..constEnd(), and the loop from the one to the other visits the
\* positions between them and never leaves the live range.
C35_ScanStaysInside ==
  Asked("selectTest") =>
    /\ begin(Store) <= call.result.begin
    /\ call.result.begin <= call.result.end
    /\ call.result.end <= end(Store)
    /\ ~call.result.escaped
    /\ Len(call.result.visited) = call.result.end - call.result.begin
    /\ \A i \in 1..Len(call.result.visited) :
         call.result.visited[i] = call.result.begin + i - 1

\* both keys below every key held, expanded, behind a pool: the first point
\* alone is visited
C35_Witness ==
  /\ Asked("selectTest")
  /\ call.args.expandedRange
  /\ mPreallocSize > 0
  /\ size(Store) = 3
  /\ \A i \in LivePositions : sortKey(mData[i]) > call.args.keyMax
  /\ call.result.begin = begin(Store)
  /\ call.result.visited = <<begin(Store)>>

\* C36: for a point type sorted by its main key, keyRange over both signs
\* (first point of non-NaN value from the left, first from the right) returns
\* the found flag and the bounds of the scan of all points that keeps the
\* least and the greatest main key of the points of non-NaN value.
C36_KeyRangeFastIsScan ==
  Asked("keyRange") /\ call.args.signDomain = "sdBoth" /\ call.args.sortKeyIsMainKey =>
    LET counted == KeysCounted("sdBoth")
    IN /\ call.result = keyRange(Store, "sdBoth", FALSE)
       /\ call.result.found <=> counted # {}
       /\ call.result.found =>
            call.result.lower = SetMin(counted) /\ call.result.upper = SetMax(counted)

\* the last point has a NaN value: the upper bound is the key before it
C36_Witness ==
  /\ Asked("keyRange")
  /\ call.args.signDomain = "sdBoth"
  /\ call.args.sortKeyIsMainKey
  /\ mPreallocSize > 0
  /\ size(Store) = 3
  /\ HasValue(LiveNow[1])
  /\ HasValue(LiveNow[2])
  /\ ~HasValue(LiveNow[3])
  /\ mainKey(LiveNow[1]) < mainKey(LiveNow[2])
  /\ mainKey(LiveNow[2]) < mainKey(LiveNow[3])
  /\ call.result = [found |-> TRUE, lower |-> mainKey(LiveNow[1]), upper |-> mainKey(LiveNow[2])]

\* C37: whenever valueRange reports a range as found, its lower bound is not
\* above its upper bound, for every sign domain and key range.
C37_FoundRangeOrdered ==
  Asked("valueRange") /\ call.result.found => call.result.lower <= call.result.upper

\* the bounds of all live points that count for a sign domain, whatever
\* their keys
AllLowers(signDomain) ==
  {valueRangeOf(mData[i]).lower : i \in {j \in LivePositions :
     valueRangeOf(mData[j]).lower # NaN /\ OfSign(valueRangeOf(mData[j]).lower, signDomain)}}

AllUppers(signDomain) ==
  {valueRangeOf(mData[i]).upper : i \in {j \in LivePositions :
     valueRangeOf(mData[j]).upper # NaN /\ OfSign(valueRangeOf(mData[j]).upper, signDomain)}}

\* C38: valueRange with inKeyRange = (0, 0) considers every point whatever
\* its key: the result is that of all live points, not that of the points of
\* main key 0.
C38_ZeroRangeIsNoRestriction ==
  Asked("valueRange") /\ call.args.inKeyRange = [lower |-> 0, upper |-> 0] =>
    LET lowers == AllLowers(call.args.signDomain)
        uppers == AllUppers(call.args.signDomain)
    IN /\ call.result.found <=> lowers # {} /\ uppers # {}
       /\ lowers # {} => call.result.lower = SetMin(lowers)
       /\ uppers # {} => call.result.upper = SetMax(uppers)

\* no point has main key 0, and a range is found
C38_Witness ==
  /\ Asked("valueRange")
  /\ call.args.inKeyRange = [lower |-> 0, upper |-> 0]
  /\ call.args.sortKeyIsMainKey
  /\ size(Store) = 3
  /\ \A i \in LivePositions : mainKey(mData[i]) # 0
  /\ mainKey(LiveNow[1]) < 0
  /\ mainKey(LiveNow[3]) > 0
  /\ call.result.found
  /\ call.result.lower < call.result.upper

\* C39: whatever mPreallocIteration is, the new pool size is at most the
\* minimum asked for plus 32768 - 12 = 32756, and it is exactly that from
\* mPreallocIteration 11 on.
C39_ScheduleCeiling ==
  Asked("newPreallocSize") =>
    /\ call.result <= call.args.minimumPreallocSize + 32756
    /\ call.args.mPreallocIteration >= 11 =>
         call.result = call.args.minimumPreallocSize + 32756
    /\ call.args.mPreallocIteration < 11 =>
         call.result < call.args.minimumPreallocSize + 32756

\* two growths past the one that reached the ceiling
C39_Witness ==
  /\ Asked("newPreallocSize")
  /\ call.args.mPreallocIteration = 13
  /\ call.args.minimumPreallocSize = 4
  /\ call.result = 32760

====
